---- MODULE Spec2Model ----
(***************************************************************************)
(* A model of the kx_python_flutter_bridge worker process:                 *)
(*   - AutoRestartBridge (jsonrpc_bridge.py): the Supervisor's start()     *)
(*     loop, its restart policy, its signal handler and its health-check   *)
(*     thread;                                                             *)
(*   - AutoRestartBridge.__init__: Discovery (_discover_bridge_functions,  *)
(*     _scan_directory) loading the source units of a project tree, whose  *)
(*     top-level code registers functions in the Registry;                 *)
(*   - the Registry, the Protocol Codec, the Dispatcher and the stream     *)
(*     binding of the Transport Loop (JsonRpcServer), which the Supervisor *)
(*     imports and starts;                                                 *)
(*   - watch_for_requests (python_bridge_legacy.py): the file-exchange     *)
(*     poll loop and the peer that writes request artifacts.               *)
(* Time is a global clock `now` in seconds.  It advances while the         *)
(* Transport Loop runs (Tick) and during the Supervisor's backoff sleep.   *)
(***************************************************************************)
EXTENDS Integers, Sequences, FiniteSets, TLC

VARIABLES
    \* ---- AutoRestartBridge fields
    running,            \* self.running
    restart_count,      \* self.restart_count
    last_restart_time,  \* self.last_restart_time
    last_health_check,  \* self.last_health_check
    \* ---- control state of the two threads and the clock
    pc,                 \* position of the main thread inside start()
    hpc,                \* position of the health_monitor thread
    now,                \* time.time()
    \* ---- health thread locals and the status artifact
    h_uptime,           \* the uptime value computed at lines 264-268
    status_file,        \* kx_bridge_status.json
    h_outcome,          \* history: how the latest health check ended
    h_view,             \* history: what the health check in progress read
    \* ---- history variables (observations, never read by the program)
    signalled,          \* a termination signal has been handled
    constructs,         \* number of executions of line 309, JsonRpcServer()
    starts,             \* number of executions of line 313, server.start()
    failures,           \* number of Transport Loop ends taken as failures
    run_start,          \* clock value when line 309 was last executed
    exit_reason,        \* which branch left the while loop of start()
    \* ---- file-exchange binding (python_bridge_legacy.py)
    request_file,       \* flutter_request.json
    response_file,      \* python_response.json
    fpc,                \* position of watch_for_requests
    request,            \* local `request` of the current iteration
    request_id,         \* local `request_id` ("request_id" in locals())
    result,             \* local `result`
    f_hist,             \* history of the current poll iteration
    dispatched,         \* history: dispatches since the peer last wrote
    \* ---- Discovery (jsonrpc_bridge.py, lines 144-225) and the Registry
    fs_load,            \* what loading each source unit does (its contents)
    search_idx,         \* position of the for loop of line 163
    scan_seen,          \* units the rglob of line 188 has yielded so far
    scan_count,         \* local discovered_count of _scan_directory
    discovered_count,   \* local discovered_count of _discover_bridge_functions
    discovered_modules, \* self.discovered_modules
    registry,           \* the descriptors held by the function registry
    functions,          \* local `functions` of line 168
    h_functions,        \* local `functions` of line 257
    d_hist,             \* history of Discovery and of the registrations
    \* ---- stream binding of the Transport Loop (inside server.start())
    tpc,                \* position of the Transport Loop
    frame,              \* the inbound frame being processed
    response,           \* the outbound frame being written
    t_hist              \* history of the calls made on the channel

supVars  == <<running, restart_count, last_restart_time, pc, now, signalled,
              constructs, starts, failures, run_start, exit_reason>>
hVars    == <<last_health_check, hpc, h_uptime, status_file, h_functions,
              h_outcome, h_view>>
fileVars == <<request_file, response_file, fpc, request, request_id, result,
              f_hist, dispatched>>
discVars == <<fs_load, search_idx, scan_seen, scan_count, discovered_count,
              discovered_modules, registry, functions, d_hist>>
rpcVars  == <<tpc, frame, response, t_hist>>
vars     == <<supVars, hVars, fileVars, discVars, rpcVars>>

----------------------------------------------------------------------------
(* Program constants of AutoRestartBridge.__init__ *)
max_restarts == 10
restart_cooldown == 60
health_check_interval == 30

(* Bounds of the model *)
MaxRun == 61
MaxClock == 1000
MaxDispatch == 2
HealthHorizon == 63

TickSteps == {1, 59}

Min(a, b) == IF a < b THEN a ELSE b

----------------------------------------------------------------------------
(* _should_restart without the test of line 289 *)
should_restart_no_limit ==
    ~ (now - last_restart_time < restart_cooldown)

(* _should_restart without the test of line 294 *)
should_restart_no_cooldown ==
    ~ (restart_count >= max_restarts)

(* _should_restart with <= for < at line 294 *)
should_restart_le ==
    /\ ~ (restart_count >= max_restarts)
    /\ ~ (now - last_restart_time <= restart_cooldown)

(* AutoRestartBridge._should_restart, lines 284-298 *)
should_restart ==
    /\ ~ (restart_count >= max_restarts)
    /\ ~ (now - last_restart_time < restart_cooldown)

(* The delay computed from the count before the increment *)
backoff_delay_before_increment(k) == Min((k - 1) * 2, 30)

(* The progressive delay of lines 323 and 346 *)
backoff_delay(k) == Min(k * 2, 30)

----------------------------------------------------------------------------
(* State after AutoRestartBridge.__init__ (lines 49-72) and before start() *)
(* History of one health check: the last_restart_time it read (lrt) with   *)
(* the restart_count current at that instant (rc) and whether the          *)
(* increment of the loop iteration in progress was still ahead; then the   *)
(* restart_count it read (rc2) with the last_restart_time current at that  *)
(* instant (lrt2).                                                         *)
NoView == [lrt |-> 0, rc |-> 0, ahead |-> FALSE, lrt2 |-> 0, rc2 |-> 0,
           written |-> FALSE]

SupInit ==
    /\ running = TRUE
    /\ restart_count = 0
    /\ last_restart_time = 0
    /\ pc = "loop"
    /\ now = 1
    /\ signalled = FALSE
    /\ constructs = 0
    /\ starts = 0
    /\ failures = 0
    /\ run_start = 0
    /\ exit_reason = "none"

HealthInit ==
    /\ last_health_check = now
    /\ hpc = "h_loop"
    /\ h_uptime = 0
    /\ status_file = [kind |-> "absent"]
    /\ h_functions = <<>>
    /\ h_outcome = "none"
    /\ h_view = NoView

HealthIdle ==
    /\ last_health_check = now
    /\ hpc = "h_off"
    /\ h_uptime = 0
    /\ status_file = [kind |-> "absent"]
    /\ h_functions = <<>>
    /\ h_outcome = "none"
    /\ h_view = NoView

----------------------------------------------------------------------------
(* AutoRestartBridge._signal_handler, lines 279-282.  Python runs the      *)
(* handler in the main thread between two bytecodes, so it can take effect *)
(* at any position of start().                                             *)
signal_handler ==
    /\ pc \notin {"done", "dead"}
    /\ pc \notin {"search", "scan", "list", "handlers"}
    /\ ~ signalled
    /\ running' = FALSE
    /\ signalled' = TRUE
    /\ UNCHANGED <<restart_count, last_restart_time, pc, now, constructs,
                   starts, failures, exit_reason>>
    /\ UNCHANGED run_start

(* start(), line 304: while self.running; line 352 when the test fails *)
LoopTest ==
    /\ pc = "loop"
    /\ IF running
          THEN pc' = "stamp" /\ UNCHANGED exit_reason
          ELSE pc' = "done" /\ exit_reason' = "loop_exit"
    /\ UNCHANGED <<running, restart_count, last_restart_time, now, signalled,
                   constructs, starts, failures>>
    /\ UNCHANGED run_start

(* Stamp with the counter reset at every (re)start *)
Stamp_resets_count ==
    /\ pc = "stamp"
    /\ last_restart_time' = now
    /\ restart_count' = 0
    /\ pc' = "construct"
    /\ UNCHANGED <<running, now, signalled, constructs, starts, failures,
                   run_start, exit_reason>>

(* start(), line 306: self.last_restart_time = time.time() *)
Stamp ==
    /\ pc = "stamp"
    /\ last_restart_time' = now
    /\ pc' = "construct"
    /\ UNCHANGED <<running, restart_count, now, signalled, constructs, starts,
                   failures, exit_reason>>
    /\ UNCHANGED run_start

(* start(), lines 309-313: the server is constructed and server.start()    *)
(* is entered; it blocks.                                                  *)
ConstructAndStart ==
    /\ pc = "construct"
    /\ constructs' = constructs + 1
    /\ starts' = starts + 1
    /\ pc' = "serve"
    /\ UNCHANGED <<running, restart_count, last_restart_time, now, signalled,
                   failures, exit_reason>>
    /\ run_start' = now

(* start(), line 309 raising: control goes to `except Exception`, line 337 *)
ConstructRaises ==
    /\ pc = "construct"
    /\ constructs' = constructs + 1
    /\ pc' = "exc_check"
    /\ UNCHANGED <<running, restart_count, last_restart_time, now, signalled,
                   starts, failures, exit_reason>>
    /\ run_start' = now

(* Time passing while server.start() blocks (line 313) *)
Tick(d, horizon) ==
    /\ pc = "serve"
    /\ now + d - last_restart_time <= MaxRun
    /\ now + d <= horizon
    /\ now' = now + d
    /\ UNCHANGED <<running, restart_count, last_restart_time, pc, signalled,
                   constructs, starts, failures, exit_reason>>
    /\ UNCHANGED run_start

(* server.start() returns, line 313 -> 316 *)
ServerReturns ==
    /\ pc = "serve"
    /\ pc' = "ret_check"
    /\ UNCHANGED <<running, restart_count, last_restart_time, now, signalled,
                   constructs, starts, failures, exit_reason>>
    /\ UNCHANGED run_start

(* server.start() raises an Exception, line 313 -> 337 *)
ServerRaises ==
    /\ pc = "serve"
    /\ pc' = "exc_check"
    /\ UNCHANGED <<running, restart_count, last_restart_time, now, signalled,
                   constructs, starts, failures, exit_reason>>
    /\ UNCHANGED run_start

(* server.start() raises KeyboardInterrupt, lines 332-335 *)
ServerInterrupted ==
    /\ pc = "serve"
    /\ running' = FALSE
    /\ pc' = "done"
    /\ exit_reason' = "interrupt"
    /\ UNCHANGED <<restart_count, last_restart_time, now, signalled,
                   constructs, starts, failures>>
    /\ UNCHANGED run_start

(* start(), line 316: if self.running ... else (329-330) break *)
RetCheck ==
    /\ pc = "ret_check"
    /\ IF running
          THEN /\ pc' = "ret_policy"
               /\ failures' = failures + 1
               /\ UNCHANGED exit_reason
          ELSE /\ pc' = "done"
               /\ exit_reason' = "graceful"
               /\ UNCHANGED failures
    /\ UNCHANGED <<running, restart_count, last_restart_time, now, signalled,
                   constructs, starts>>
    /\ UNCHANGED run_start

(* start(), line 318: if self._should_restart() ... else (326-327) break *)
RetPolicy ==
    /\ pc = "ret_policy"
    /\ IF should_restart
          THEN pc' = "ret_incr" /\ UNCHANGED exit_reason
          ELSE pc' = "done" /\ exit_reason' = "denied"
    /\ UNCHANGED <<running, restart_count, last_restart_time, now, signalled,
                   constructs, starts, failures>>
    /\ UNCHANGED run_start

(* start(), line 319: self.restart_count += 1 *)
RetIncr ==
    /\ pc = "ret_incr"
    /\ restart_count' = restart_count + 1
    /\ pc' = "ret_sleep"
    /\ UNCHANGED <<running, last_restart_time, now, signalled, constructs,
                   starts, failures, exit_reason>>
    /\ UNCHANGED run_start

(* The restart path running Discovery again before the next start *)
RetSleep_rediscovers ==
    /\ pc = "ret_sleep"
    /\ now' = now + backoff_delay(restart_count)
    /\ pc' = "search"
    /\ UNCHANGED <<running, restart_count, last_restart_time, signalled,
                   constructs, starts, failures, exit_reason>>
    /\ UNCHANGED run_start

(* start(), lines 323-324: time.sleep(min(restart_count * 2, 30)); continue *)
RetSleep ==
    /\ pc = "ret_sleep"
    /\ now' = now + backoff_delay(restart_count)
    /\ pc' = "loop"
    /\ UNCHANGED <<running, restart_count, last_restart_time, signalled,
                   constructs, starts, failures, exit_reason>>
    /\ UNCHANGED run_start

(* start(), line 341, left operand: if self.running and ...; else 349-350 *)
ExcCheck ==
    /\ pc = "exc_check"
    /\ IF running
          THEN /\ pc' = "exc_policy"
               /\ failures' = failures + 1
               /\ UNCHANGED exit_reason
          ELSE /\ pc' = "done"
               /\ exit_reason' = "error_stop"
               /\ UNCHANGED failures
    /\ UNCHANGED <<running, restart_count, last_restart_time, now, signalled,
                   constructs, starts>>
    /\ UNCHANGED run_start

(* Line 341 granting the restart whatever the policy says *)
ExcPolicy_always_grants ==
    /\ pc = "exc_policy"
    /\ pc' = "exc_incr"
    /\ UNCHANGED <<running, restart_count, last_restart_time, now, signalled,
                   constructs, starts, failures, exit_reason>>
    /\ UNCHANGED run_start

(* start(), line 341, right operand: self._should_restart(); else 349-350 *)
ExcPolicy ==
    /\ pc = "exc_policy"
    /\ IF should_restart
          THEN pc' = "exc_incr" /\ UNCHANGED exit_reason
          ELSE pc' = "done" /\ exit_reason' = "denied"
    /\ UNCHANGED <<running, restart_count, last_restart_time, now, signalled,
                   constructs, starts, failures>>
    /\ UNCHANGED run_start

(* start(), line 342: self.restart_count += 1 *)
ExcIncr ==
    /\ pc = "exc_incr"
    /\ restart_count' = restart_count + 1
    /\ pc' = "exc_sleep"
    /\ UNCHANGED <<running, last_restart_time, now, signalled, constructs,
                   starts, failures, exit_reason>>
    /\ UNCHANGED run_start

(* start(), lines 346-347: time.sleep(min(restart_count * 2, 30)); continue *)
ExcSleep ==
    /\ pc = "exc_sleep"
    /\ now' = now + backoff_delay(restart_count)
    /\ pc' = "loop"
    /\ UNCHANGED <<running, restart_count, last_restart_time, signalled,
                   constructs, starts, failures, exit_reason>>
    /\ UNCHANGED run_start

----------------------------------------------------------------------------
(* The file-exchange binding, python_bridge_legacy.py.                     *)
(* A JSON value found in the request artifact is a mapping with the keys   *)
(* function, args and request_id (any of which may be missing), or some    *)
(* other JSON value (a list).  An argument is a number, a string spelling  *)
(* a number, or a string that spells none.                                 *)

num1 == [t |-> "num", v |-> 1]
num2 == [t |-> "num", v |-> 2]
str3 == [t |-> "numstr", v |-> 3]
word == [t |-> "word", v |-> 0]

NoResult == [t |-> "none", v |-> 0]
UnknownFunction == [t |-> "unknown", v |-> 0]
ErrorText == [t |-> "error", v |-> 0]

Mapping(f, h, a, id) ==
    [shape |-> "mapping", function |-> f, has_args |-> h, args |-> a,
     request_id |-> id]

NoValue == [shape |-> "none", function |-> "None", has_args |-> FALSE,
            args |-> <<>>, request_id |-> "None"]
NonMapping == [shape |-> "list", function |-> "None", has_args |-> FALSE,
               args |-> <<>>, request_id |-> "None"]

ArgLists == {<<num1, num2>>, <<str3, num2>>, <<num1>>, <<word, num2>>}
RequestIds == {"r1", "r2"}

RequestValues ==
    {Mapping("add_numbers", TRUE, a, id) : a \in ArgLists, id \in RequestIds}
    \cup {Mapping("add_numbers", FALSE, <<>>, "r1")}
    \cup {Mapping("other", TRUE, <<num1, num2>>, id) : id \in RequestIds}
    \cup {Mapping("add_numbers", TRUE, <<num1, num2>>, "None")}
    \cup {NonMapping}

(* Contents of the request artifact *)
Absent == [kind |-> "absent", val |-> NoValue]
Unread == [kind |-> "none", val |-> NoValue]
Json(v) == [kind |-> "json", val |-> v]
PeerContents ==
    {[kind |-> k, val |-> NoValue] :
        k \in {"empty", "blank", "garbled", "undecodable"}}
    \cup {Json(v) : v \in RequestValues}

(* The artifact while the peer has written only a first part of its JSON   *)
(* text: not empty, and no JSON document                                   *)
Partial == [kind |-> "partial", val |-> NoValue]

(* Contents of the response artifact *)
NoResponse ==
    [kind |-> "absent", result |-> NoResult, request_id |-> "None",
     success |-> FALSE]
EmptyResponse ==
    [kind |-> "empty", result |-> NoResult, request_id |-> "None",
     success |-> FALSE]
Response(r, id, ok) ==
    [kind |-> "complete", result |-> r, request_id |-> id, success |-> ok]

(* What the current poll iteration has done so far *)
NoHist == [req |-> Unread, called |-> FALSE, wrote |-> "no",
           resp_id |-> "None", deleted |-> FALSE]

(* float(a), lines 9-10 *)
to_float(a) ==
    IF a.t \in {"num", "numstr"}
       THEN [raised |-> FALSE, v |-> a.v]
       ELSE [raised |-> TRUE, v |-> 0]

(* add_numbers called with the unpacked args, lines 7-11 and 66: a         *)
(* TypeError unless exactly two arguments are passed, a ValueError from    *)
(* float() of a non-numeric string                                         *)
add_numbers(args) ==
    IF Len(args) # 2
       THEN [raised |-> TRUE, value |-> NoResult]
       ELSE LET a == to_float(args[1])
                b == to_float(args[2])
            IN IF a.raised \/ b.raised
                  THEN [raised |-> TRUE, value |-> NoResult]
                  ELSE [raised |-> FALSE,
                        value |-> [t |-> "num", v |-> a.v + b.v]]

(* State of watch_for_requests when it enters its loop, lines 14-36 *)
FileInit ==
    /\ request_file = Absent
    /\ response_file = NoResponse
    /\ fpc = "poll"
    /\ request = NoValue
    /\ request_id = "unbound"
    /\ result = NoResult
    /\ f_hist = NoHist
    /\ dispatched = 0

(* The peer (the host application) writes a request artifact, replacing    *)
(* the one in place                                                        *)
PeerWrites(c) ==
    /\ request_file' = c
    /\ request_file # c
    /\ dispatched' = 0
    /\ UNCHANGED <<response_file, fpc, request, request_id, result, f_hist>>

(* The peer writes a request artifact in place with no rename: it opens    *)
(* the artifact, which creates or truncates it, ...                        *)
PeerOpens ==
    /\ request_file.kind # "empty"
    /\ request_file' = [kind |-> "empty", val |-> NoValue]
    /\ dispatched' = 0
    /\ UNCHANGED <<response_file, fpc, request, request_id, result, f_hist>>

(* ... writes a first part of the JSON text, ...                           *)
PeerWritesPart ==
    /\ request_file.kind = "empty"
    /\ request_file' = Partial
    /\ UNCHANGED <<response_file, fpc, request, request_id, result, f_hist,
                   dispatched>>

(* ... and writes the rest.  Nothing is written to the request location if *)
(* the artifact was unlinked in between.                                   *)
PeerCompletes(v) ==
    /\ request_file.kind = "partial"
    /\ request_file' = Json(v)
    /\ UNCHANGED <<response_file, fpc, request, request_id, result, f_hist,
                   dispatched>>

(* The peer consumes the response artifact *)
PeerTakesResponse ==
    /\ response_file.kind = "complete"
    /\ response_file' = NoResponse
    /\ UNCHANGED <<request_file, fpc, request, request_id, result, f_hist>>
    /\ UNCHANGED dispatched

(* lines 36-43: a new iteration; exists() and st_size > 0 *)
Poll ==
    /\ fpc = "poll"
    /\ fpc' = IF request_file.kind \notin {"absent", "empty"}
                 THEN "read" ELSE "sleep"
    /\ f_hist' = NoHist
    /\ request' = NoValue
    /\ result' = NoResult
    /\ UNCHANGED <<request_file, response_file, request_id>>
    /\ UNCHANGED dispatched

(* lines 46-53: open, read().strip(), json.loads *)
ReadRequest ==
    /\ fpc = "read"
    /\ f_hist' = [f_hist EXCEPT !.req = request_file]
    /\ CASE request_file.kind = "json" ->
                request' = request_file.val /\ fpc' = "get"
         [] request_file.kind \in {"empty", "blank"} ->
                UNCHANGED request /\ fpc' = "poll"
         [] request_file.kind \in {"garbled", "partial", "absent"} ->
                UNCHANGED request /\ fpc' = "cleanup"
         [] request_file.kind = "undecodable" ->
                UNCHANGED request /\ fpc' = "except"
    /\ UNCHANGED <<request_file, response_file, request_id, result>>
    /\ UNCHANGED dispatched

(* lines 53-57: the artifact is unlinked if it is there; continue *)
Cleanup ==
    /\ fpc = "cleanup"
    /\ request_file' = Absent
    /\ f_hist' = [f_hist EXCEPT !.deleted = (request_file.kind # "absent")]
    /\ fpc' = "poll"
    /\ UNCHANGED <<response_file, request, request_id, result>>
    /\ UNCHANGED dispatched

(* lines 60-62: request.get(...); a value that is no mapping has no get *)
GetFields ==
    /\ fpc = "get"
    /\ IF request.shape = "mapping"
          THEN request_id' = request.request_id /\ fpc' = "call"
          ELSE UNCHANGED request_id /\ fpc' = "except"
    /\ UNCHANGED <<request_file, response_file, request, result, f_hist>>
    /\ UNCHANGED dispatched

(* lines 65-68 *)
Call ==
    /\ fpc = "call"
    /\ f_hist' = [f_hist EXCEPT !.called = TRUE]
    /\ IF request.function = "add_numbers"
          THEN LET r == add_numbers(request.args)
               IN IF r.raised
                     THEN UNCHANGED result /\ fpc' = "except"
                     ELSE result' = r.value /\ fpc' = "respond_open"
          ELSE result' = UnknownFunction /\ fpc' = "respond_open"
    /\ UNCHANGED <<request_file, response_file, request, request_id>>
    /\ dispatched' = Min(dispatched + 1, MaxDispatch)

(* line 74: open(response_file, "w") truncates the artifact *)
RespondOpen ==
    /\ fpc = "respond_open"
    /\ response_file' = EmptyResponse
    /\ fpc' = "respond_dump"
    /\ UNCHANGED <<request_file, request, request_id, result, f_hist>>
    /\ UNCHANGED dispatched

(* lines 71-75: json.dump(response, f) and the close of the file *)
RespondDump ==
    /\ fpc = "respond_dump"
    /\ response_file' = Response(result, request_id, TRUE)
    /\ f_hist' = [f_hist EXCEPT !.wrote = "success", !.resp_id = request_id]
    /\ fpc' = "unlink"
    /\ UNCHANGED <<request_file, request, request_id, result>>
    /\ UNCHANGED dispatched

(* UnlinkRequest leaving the artifact in place *)
UnlinkRequest_skips ==
    /\ fpc = "unlink"
    /\ fpc' = "sleep"
    /\ UNCHANGED <<request_file, response_file, request, request_id, result,
                   f_hist>>
    /\ UNCHANGED dispatched

(* line 80: request_file.unlink(); FileNotFoundError goes to line 82 *)
UnlinkRequest ==
    /\ fpc = "unlink"
    /\ IF request_file.kind = "absent"
          THEN fpc' = "except" /\ UNCHANGED <<request_file, f_hist>>
          ELSE /\ request_file' = Absent
               /\ f_hist' = [f_hist EXCEPT !.deleted = TRUE]
               /\ fpc' = "sleep"
    /\ UNCHANGED <<response_file, request, request_id, result>>
    /\ UNCHANGED dispatched

(* lines 82-86: except Exception; if "request_id" in locals() *)
Except ==
    /\ fpc = "except"
    /\ fpc' = IF request_id # "unbound" THEN "error_open" ELSE "sleep"
    /\ UNCHANGED <<request_file, response_file, request, request_id, result,
                   f_hist>>
    /\ UNCHANGED dispatched

(* line 92: open(response_file, "w") *)
ErrorOpen ==
    /\ fpc = "error_open"
    /\ response_file' = EmptyResponse
    /\ fpc' = "error_dump"
    /\ UNCHANGED <<request_file, request, request_id, result, f_hist>>
    /\ UNCHANGED dispatched

(* lines 87-93: json.dump(error_response, f) *)
ErrorDump ==
    /\ fpc = "error_dump"
    /\ response_file' = Response(ErrorText, request_id, FALSE)
    /\ f_hist' = [f_hist EXCEPT !.wrote = "error", !.resp_id = request_id]
    /\ fpc' = "sleep"
    /\ UNCHANGED <<request_file, request, request_id, result>>
    /\ UNCHANGED dispatched

(* line 96: time.sleep(0.1) *)
Sleep ==
    /\ fpc = "sleep"
    /\ fpc' = "poll"
    /\ UNCHANGED <<request_file, response_file, request, request_id, result,
                   f_hist>>
    /\ UNCHANGED dispatched


----------------------------------------------------------------------------
(* Values on the wire and in signatures: a number, a text spelling a       *)
(* number, or another text.                                                *)
num0 == [t |-> "num", v |-> 0]
num3 == [t |-> "num", v |-> 3]
str2 == [t |-> "numstr", v |-> 2]
Alice == [t |-> "word", v |-> 1]
Dr == [t |-> "word", v |-> 2]
User == [t |-> "word", v |-> 3]

(* ParameterDescriptor and FunctionDescriptor.  module is the identity of  *)
(* the module whose loading registered the target.                         *)
Param(n, ty, req, def) ==
    [name |-> n, type |-> ty, required |-> req, default |-> def]

Descriptor(n, m, ps) == [name |-> n, module |-> m, params |-> ps]

NotFound == Descriptor("not-found", <<>>, <<>>)

(* The Registry is the sequence of the descriptors it holds *)
HasName(reg, n) == \E i \in 1..Len(reg) : reg[i].name = n

(* register that keeps the first descriptor of a name *)
register_first_wins(reg, d) ==
    IF HasName(reg, d.name) THEN reg ELSE Append(reg, d)

(* Registry.register: insert, or overwrite the descriptor of that name *)
register(reg, d) ==
    IF HasName(reg, d.name)
       THEN [i \in 1..Len(reg) |-> IF reg[i].name = d.name THEN d ELSE reg[i]]
       ELSE Append(reg, d)

(* Registry.lookup *)
lookup(reg, n) ==
    IF HasName(reg, n)
       THEN reg[CHOOSE i \in 1..Len(reg) :
                   /\ reg[i].name = n
                   /\ \A j \in 1..(i - 1) : reg[j].name # n]
       ELSE NotFound

(* list_functions that leaves out the descriptor registered last *)
list_functions_drops_last(reg) ==
    [i \in 1..(IF Len(reg) > 0 THEN Len(reg) - 1 ELSE 0) |-> reg[i].name]

(* Registry.list, list_functions: the names of the descriptors held *)
list_functions(reg) == [i \in 1..Len(reg) |-> reg[i].name]

RECURSIVE RegisterAll(_, _)
RegisterAll(reg, ds) ==
    IF ds = <<>> THEN reg
    ELSE RegisterAll(register(reg, Head(ds)), Tail(ds))

----------------------------------------------------------------------------
(* The project tree that Discovery walks.  A file has the directory it    *)
(* lies in, relative to the project root, and a name; the name is given    *)
(* as the pieces of text the tests of lines 190-197 look at, stem being    *)
(* the name without its suffix.                                            *)
SourceUnits == {"tools", "my_tools", "calc"}
Units == SourceUnits \cup {"glue", "init", "entry", "api", "host", "eph"}

UnitFile(u) ==
    CASE u = "tools" ->
           [dir |-> <<>>, stem |-> "tools", name |-> <<"tools", ".py">>]
      [] u = "my_tools" ->
           [dir |-> <<"my_py_codes">>, stem |-> "tools",
            name |-> <<"tools", ".py">>]
      [] u = "calc" ->
           [dir |-> <<"my_py_codes">>, stem |-> "calc",
            name |-> <<"calc", ".py">>]
      [] u = "glue" ->
           [dir |-> <<"src">>, stem |-> "flutter_glue",
            name |-> <<"flutter", "_glue", ".py">>]
      [] u = "init" ->
           [dir |-> <<"my_py_codes">>, stem |-> "__init__",
            name |-> <<"__", "init__", ".py">>]
      [] u = "entry" ->
           [dir |-> <<"scripts">>, stem |-> "jsonrpc_bridge",
            name |-> <<"jsonrpc_bridge", ".py">>]
      [] u = "api" ->
           [dir |-> <<"src">>, stem |-> "FLUTTER_api",
            name |-> <<"FLUTTER", "_api", ".py">>]
      [] u = "host" ->
           [dir |-> <<"macos", "Flutter">>, stem |-> "gen",
            name |-> <<"gen", ".py">>]
      [] u = "eph" ->
           [dir |-> <<"linux", "flutter", "ephemeral">>, stem |-> "plugin",
            name |-> <<"plugin", ".py">>]

(* Path.cwd(), line 149 *)
project_root == <<"home", "dev", "app">>

(* str.lower() on a piece of text *)
lower(t) == IF t \in {"Flutter", "FLUTTER"} THEN "flutter" ELSE t

(* str.startswith and the `in` test of a text in a text, on pieces *)
startswith(text, t) == text # <<>> /\ text[1] = t
contains(text, t) == \E i \in 1..Len(text) : text[i] = t

(* str(py_file): the absolute path of the file *)
str_path(u) == project_root \o UnitFile(u).dir \o UnitFile(u).name

(* The test of lines 190-197 comparing the name with 'flutter' as it is    *)
(* spelled                                                                 *)
skipped_case_sensitive(u) ==
    LET name == UnitFile(u).name
    IN  \/ startswith(name, "__")
        \/ name = <<"jsonrpc_bridge", ".py">>
        \/ contains(name, "flutter")
        \/ contains(str_path(u), "Flutter")
        \/ contains(str_path(u), "ephemeral")
        \/ name[Len(name)] # ".py"

(* The test of lines 190-197: the file is passed over *)
skipped(u) ==
    LET name == UnitFile(u).name
    IN  \/ startswith(name, "__")
        \/ name = <<"jsonrpc_bridge", ".py">>
        \/ contains([i \in 1..Len(name) |-> lower(name[i])], "flutter")
        \/ contains(str_path(u), "Flutter")
        \/ contains(str_path(u), "ephemeral")
        \/ name[Len(name)] # ".py"

(* The functions a unit's top-level code registers, in order *)
UnitFunctions(u) ==
    CASE u = "tools" ->
           << [name |-> "add",
               params |-> <<Param("a", "number", TRUE, num0),
                            Param("b", "number", FALSE, num0)>>],
              [name |-> "boom", params |-> <<>>] >>
      [] u = "my_tools" ->
           << [name |-> "add",
               params |-> <<Param("a", "number", TRUE, num0),
                            Param("b", "number", TRUE, num0)>>] >>
      [] u = "calc" ->
           << [name |-> "greet",
               params |-> <<Param("name", "text", TRUE, User),
                            Param("title", "text", FALSE, User)>>] >>
      [] OTHER -> << >>

(* What exec_module does on a unit: it runs to its end, it raises an       *)
(* Exception, or it raises SystemExit (sys.exit at top level), which       *)
(* `except Exception` does not catch.                                      *)
LoadOutcomes == {"ok", "raises", "exits"}

(* Lines 152-159 *)
search_paths ==
    << <<>>, <<"my_py_codes">>, <<"python_modules">>, <<"src">>,
       <<"lib", "python">>, <<"scripts">> >>

IsPrefix(p, q) == Len(p) <= Len(q) /\ SubSeq(q, 1, Len(p)) = p

Present(u) == fs_load[u] # "absent"

(* directory.rglob("*.py"), line 188 *)
UnitsUnder(root) ==
    {u \in Units : Present(u) /\ IsPrefix(root, UnitFile(u).dir)}

(* search_path.exists(), line 164 *)
exists(root) ==
    root = <<>> \/ \E u \in Units : Present(u) /\ IsPrefix(root, UnitFile(u).dir)

(* Lines 202-204: the module identity derived from the path under the root *)
module_name(root, u) ==
    SubSeq(UnitFile(u).dir, Len(root) + 1, Len(UnitFile(u).dir))
       \o <<UnitFile(u).stem>>

(* The descriptors the first k registrations of unit u make under identity *)
(* m                                                                       *)
Registered(u, m, k) ==
    [i \in 1..k |->
        Descriptor(UnitFunctions(u)[i].name, m, UnitFunctions(u)[i].params)]

(* History: latest is the set of the descriptors registered most recently *)
(* under each name, base the size of the processed set when the scan in    *)
(* progress began, enum_failed whether an enumeration has failed, loads    *)
(* how many times exec_module (line 215) was called on each unit.          *)
NoDiscHist == [latest |-> {}, base |-> 0, enum_failed |-> FALSE,
               loads |-> [u \in Units |-> 0]]

RECURSIVE Latest(_, _)
Latest(l, ds) ==
    IF ds = <<>> THEN l
    ELSE Latest({d \in l : d.name # Head(ds).name} \cup {Head(ds)}, Tail(ds))

(* Lines 163-165: the next search path, scanned if it exists *)
SearchNext ==
    /\ pc = "search"
    /\ IF search_idx > Len(search_paths)
          THEN /\ pc' = "list"
               /\ UNCHANGED <<search_idx, scan_seen, scan_count, d_hist>>
          ELSE IF exists(search_paths[search_idx])
                  THEN /\ pc' = "scan"
                       /\ scan_seen' = {}
                       /\ scan_count' = 0
                       /\ d_hist' =
                             [d_hist EXCEPT
                                !.base = Cardinality(discovered_modules)]
                       /\ UNCHANGED search_idx
                  ELSE /\ search_idx' = search_idx + 1
                       /\ UNCHANGED <<pc, scan_seen, scan_count, d_hist>>
    /\ UNCHANGED <<fs_load, discovered_count, discovered_modules, registry,
                   functions>>
    /\ UNCHANGED <<running, restart_count, last_restart_time, now, signalled,
                   constructs, starts, failures, run_start, exit_reason>>

(* One iteration of the for loop of line 188 that loads the unit even if   *)
(* its identity is already in the processed set                            *)
ScanUnit_no_processed_test(u) ==
    /\ pc = "scan"
    /\ u \in UnitsUnder(search_paths[search_idx]) \ scan_seen
    /\ scan_seen' = scan_seen \cup {u}
    /\ LET m == module_name(search_paths[search_idx], u)
           n == Len(UnitFunctions(u))
       IN  IF skipped(u)
              THEN UNCHANGED <<pc, scan_count, discovered_modules, registry,
                               d_hist>>
              ELSE /\ fs_load[u] = "ok"
                   /\ registry' = RegisterAll(registry, Registered(u, m, n))
                   /\ discovered_modules' = discovered_modules \cup {m}
                   /\ scan_count' = scan_count + 1
                   /\ d_hist' = [d_hist EXCEPT
                                   !.latest = Latest(@, Registered(u, m, n)),
                                   !.loads[u] = @ + 1]
                   /\ UNCHANGED pc
    /\ UNCHANGED <<fs_load, search_idx, discovered_count, functions>>
    /\ UNCHANGED <<running, restart_count, last_restart_time, now, signalled,
                   constructs, starts, failures, run_start, exit_reason>>

(* One iteration of the for loop of line 188, lines 189-220, on the unit   *)
(* rglob yields next (in no particular order).  A unit that raises may     *)
(* have registered some of its functions before.  An Exception is caught   *)
(* at line 219; SystemExit leaves __init__ and ends the process.           *)
ScanUnit(u) ==
    /\ pc = "scan"
    /\ u \in UnitsUnder(search_paths[search_idx]) \ scan_seen
    /\ scan_seen' = scan_seen \cup {u}
    /\ LET m == module_name(search_paths[search_idx], u)
           n == Len(UnitFunctions(u))
       IN  IF skipped(u) \/ m \in discovered_modules
              THEN UNCHANGED <<pc, scan_count, discovered_modules, registry,
                               d_hist>>
              ELSE IF fs_load[u] = "ok"
                      THEN /\ registry' =
                                 RegisterAll(registry, Registered(u, m, n))
                           /\ discovered_modules' =
                                 discovered_modules \cup {m}
                           /\ scan_count' = scan_count + 1
                           /\ d_hist' =
                                 [d_hist EXCEPT
                                    !.latest =
                                       Latest(@, Registered(u, m, n)),
                                    !.loads[u] = @ + 1]
                           /\ UNCHANGED pc
                      ELSE \E k \in 0..n :
                           /\ registry' =
                                 RegisterAll(registry, Registered(u, m, k))
                           /\ d_hist' =
                                 [d_hist EXCEPT
                                    !.latest =
                                       Latest(@, Registered(u, m, k)),
                                    !.loads[u] = @ + 1]
                           /\ pc' = IF fs_load[u] = "exits"
                                       THEN "dead" ELSE pc
                           /\ UNCHANGED <<scan_count, discovered_modules>>
    /\ UNCHANGED <<fs_load, search_idx, discovered_count, functions>>
    /\ UNCHANGED <<running, restart_count, last_restart_time, now, signalled,
                   constructs, starts, failures, run_start, exit_reason>>

(* Lines 222-225: the enumeration of the directory raises; the scan        *)
(* returns what it has counted so far.                                     *)
ScanEnumFails ==
    /\ pc = "scan"
    /\ UnitsUnder(search_paths[search_idx]) \ scan_seen # {}
    /\ discovered_count' = discovered_count + scan_count
    /\ search_idx' = search_idx + 1
    /\ d_hist' = [d_hist EXCEPT !.enum_failed = TRUE, !.base = 0]
    /\ scan_seen' = {}
    /\ scan_count' = 0
    /\ pc' = "search"
    /\ UNCHANGED <<fs_load, discovered_modules, registry, functions>>
    /\ UNCHANGED <<running, restart_count, last_restart_time, now, signalled,
                   constructs, starts, failures, run_start, exit_reason>>

(* Lines 225 and 165: the scan returns its count, which is added *)
ScanReturn ==
    /\ pc = "scan"
    /\ UnitsUnder(search_paths[search_idx]) \ scan_seen = {}
    /\ discovered_count' = discovered_count + scan_count
    /\ search_idx' = search_idx + 1
    /\ d_hist' = [d_hist EXCEPT !.base = 0]
    /\ scan_seen' = {}
    /\ scan_count' = 0
    /\ pc' = "search"
    /\ UNCHANGED <<fs_load, discovered_modules, registry, functions>>
    /\ UNCHANGED <<running, restart_count, last_restart_time, now, signalled,
                   constructs, starts, failures, run_start, exit_reason>>

(* Lines 168-176 if an empty listing ended the process instead of logging  *)
(* a warning                                                               *)
ListDiscovered_zero_is_fatal ==
    /\ pc = "list"
    /\ functions' = list_functions(registry)
    /\ pc' = IF Len(list_functions(registry)) = 0 THEN "dead" ELSE "handlers"
    /\ UNCHANGED <<fs_load, search_idx, scan_seen, scan_count,
                   discovered_count, discovered_modules, registry, d_hist>>
    /\ UNCHANGED <<running, restart_count, last_restart_time, now, signalled,
                   constructs, starts, failures, run_start, exit_reason>>

(* Lines 168-176: the registered functions are listed and logged; an empty *)
(* listing only adds a warning to the log.                                 *)
ListDiscovered ==
    /\ pc = "list"
    /\ functions' = list_functions(registry)
    /\ pc' = "handlers"
    /\ UNCHANGED <<fs_load, search_idx, scan_seen, scan_count,
                   discovered_count, discovered_modules, registry, d_hist>>
    /\ UNCHANGED <<running, restart_count, last_restart_time, now, signalled,
                   constructs, starts, failures, run_start, exit_reason>>

(* Lines 68-69: the signal handlers are installed.  Discovery has         *)
(* returned: its locals and the count of its loads are gone.               *)
InstallHandlers ==
    /\ pc = "handlers"
    /\ pc' = "monitor"
    /\ functions' = <<>>
    /\ discovered_count' = 0
    /\ d_hist' = [d_hist EXCEPT !.loads = NoDiscHist.loads]
    /\ UNCHANGED <<fs_load, search_idx, scan_seen, scan_count,
                   discovered_modules, registry>>
    /\ UNCHANGED <<running, restart_count, last_restart_time, now, signalled,
                   constructs, starts, failures, run_start, exit_reason>>

(* Lines 72 and 249-250: the health thread is started *)
StartHealthMonitor ==
    /\ pc = "monitor"
    /\ hpc = "h_off"
    /\ hpc' = "h_loop"
    /\ pc' = "main"
    /\ UNCHANGED <<last_health_check, h_uptime, status_file, h_functions,
                   h_outcome, h_view>>
    /\ UNCHANGED <<running, restart_count, last_restart_time, now, signalled,
                   constructs, starts, failures, run_start, exit_reason>>

(* main, lines 358-359: __init__ has returned and start() is entered *)
EnterStart ==
    /\ pc = "main"
    /\ pc' = "loop"
    /\ UNCHANGED <<running, restart_count, last_restart_time, now, signalled,
                   constructs, starts, failures, run_start, exit_reason>>

(* Discovery of an empty project: nothing was loaded or registered *)
DiscIdle ==
    /\ fs_load = [u \in Units |-> "absent"]
    /\ search_idx = Len(search_paths) + 1
    /\ scan_seen = {}
    /\ scan_count = 0
    /\ discovered_count = 0
    /\ discovered_modules = {}
    /\ registry = <<>>
    /\ functions = <<>>
    /\ d_hist = NoDiscHist

(* A project tree with the three source units, whose loading does what g   *)
(* says, and the files in others                                           *)
Tree(g, others) ==
    [u \in Units |->
        IF u \in SourceUnits THEN g[u]
        ELSE IF u \in others THEN "ok" ELSE "absent"]

(* The state in which __init__ begins Discovery (line 65): a project tree   *)
(* with the three source units and one file of the host side, or one that  *)
(* holds no file, so that of the candidate roots only the working          *)
(* directory exists.                                                       *)
DiscInit ==
    /\ \/ fs_load \in {Tree(g, {"glue"}) : g \in [SourceUnits -> LoadOutcomes]}
       \/ fs_load = [u \in Units |-> "absent"]
    /\ search_idx = 1
    /\ scan_seen = {}
    /\ scan_count = 0
    /\ discovered_count = 0
    /\ discovered_modules = {}
    /\ registry = <<>>
    /\ functions = <<>>
    /\ d_hist = NoDiscHist

----------------------------------------------------------------------------
(* The stream binding of the Transport Loop with the Protocol Codec and    *)
(* the Dispatcher (JsonRpcServer.start, entered at line 313).              *)

(* Correlation ids: absent, or a scalar *)
NoId == [present |-> FALSE, v |-> "none"]
Id(x) == [present |-> TRUE, v |-> x]

(* A parameter bag is a set of <<name, wire value>> pairs *)
BagHas(bag, n) == \E p \in bag : p[1] = n
BagGet(bag, n) == (CHOOSE p \in bag : p[1] = n)[2]

(* Inbound frames: bytes that are no request, or a request envelope *)
Frame(k, ver, m, ps, id) ==
    [kind |-> k, version |-> ver, method |-> m, params |-> ps, id |-> id]

NoFrame == Frame("none", "none", "none", {}, NoId)
Malformed == Frame("malformed", "none", "none", {}, NoId)
Request(m, ps, id) == Frame("request", "2.0", m, ps, id)

CallsOf(m) ==
    CASE m = "add" ->
           { {}, {<<"a", num2>>}, {<<"a", num2>>, <<"b", num3>>},
             {<<"a", str2>>}, {<<"a", word>>, <<"b", num3>>} }
      [] m = "greet" ->
           { {}, {<<"name", Alice>>}, {<<"name", Alice>>, <<"title", Dr>>} }
      [] m = "boom" -> { {} }
      [] m = "nope" -> { {}, {<<"a", num2>>} }
      [] m = "list_functions" -> { {} }

Methods == {"add", "greet", "boom", "nope", "list_functions"}
CallIds == {Id("abc"), NoId}

Frames ==
    {Malformed, Frame("request", "1.0", "add", {<<"a", num2>>}, Id("abc"))}
    \cup UNION {{Request(m, ps, id) : ps \in CallsOf(m), id \in CallIds} :
                  m \in Methods}

(* Outbound frames *)
NoOutbound ==
    [has_result |-> FALSE, result |-> NoResult, listing |-> <<>>,
     has_error |-> FALSE, code |-> "none", id |-> NoId]

(* Codec, success: {version, result, id} *)
EncodeResult(v, l, id) ==
    [has_result |-> TRUE, result |-> v, listing |-> l,
     has_error |-> FALSE, code |-> "none", id |-> id]

(* An error envelope that never carries the id *)
EncodeError_null_id(c, id) ==
    [has_result |-> FALSE, result |-> NoResult, listing |-> <<>>,
     has_error |-> TRUE, code |-> c, id |-> NoId]

(* Codec, failure: {version, error: {code, message}, id} *)
EncodeError(c, id) ==
    [has_result |-> FALSE, result |-> NoResult, listing |-> <<>>,
     has_error |-> TRUE, code |-> c, id |-> id]

(* Coercion of a wire value to a declared type tag: a text spelling a      *)
(* number converts to the number, another text does not.                   *)
coerce(v, ty) ==
    IF ty = "number"
       THEN IF v.t \in {"num", "numstr"}
               THEN [ok |-> TRUE, v |-> [t |-> "num", v |-> v.v]]
               ELSE [ok |-> FALSE, v |-> v]
       ELSE [ok |-> TRUE, v |-> v]

(* Binding that gives a missing required parameter its placeholder *)
RECURSIVE bind_ignores_required(_, _)
bind_ignores_required(ps, bag) ==
    IF ps = <<>> THEN [ok |-> TRUE, args |-> <<>>]
    ELSE LET p == Head(ps)
             rest == bind_ignores_required(Tail(ps), bag)
             c == IF BagHas(bag, p.name)
                     THEN coerce(BagGet(bag, p.name), p.type)
                     ELSE [ok |-> TRUE, v |-> p.default]
         IN  [ok |-> c.ok /\ rest.ok, args |-> <<c.v>> \o rest.args]

(* Dispatcher, binding: a parameter present in the bag is coerced to the   *)
(* declared type, a missing optional one takes its default, a missing      *)
(* required one or a value that does not convert fails the binding.        *)
RECURSIVE bind(_, _)
bind(ps, bag) ==
    IF ps = <<>> THEN [ok |-> TRUE, args |-> <<>>]
    ELSE LET p == Head(ps)
             rest == bind(Tail(ps), bag)
             c == IF BagHas(bag, p.name)
                     THEN coerce(BagGet(bag, p.name), p.type)
                     ELSE [ok |-> ~ p.required, v |-> p.default]
         IN  [ok |-> c.ok /\ rest.ok, args |-> <<c.v>> \o rest.args]

(* The registered targets: add returns a + b, greet builds a greeting from *)
(* title and name, boom raises.                                            *)
Invoke(n, args) ==
    CASE n = "add" ->
           [raised |-> FALSE, v |-> [t |-> "num", v |-> args[1].v + args[2].v]]
      [] n = "greet" ->
           [raised |-> FALSE,
            v |-> [t |-> "greeting", v |-> args[2].v * 10 + args[1].v]]
      [] OTHER -> [raised |-> TRUE, v |-> NoResult]

(* A dispatcher that answers an unknown method with an empty result *)
Dispatch_unknown_is_result(reg, f) ==
    IF f.kind # "request" THEN EncodeError("parse-error", NoId)
    ELSE IF f.version # "2.0" THEN EncodeError("invalid-request", f.id)
    ELSE IF f.method = "list_functions"
            THEN EncodeResult(NoResult, list_functions(reg), f.id)
    ELSE IF lookup(reg, f.method) = NotFound
            THEN EncodeResult(NoResult, <<>>, f.id)
    ELSE LET b == bind(lookup(reg, f.method).params, f.params)
         IN  IF ~ b.ok THEN EncodeError("invalid-params", f.id)
             ELSE IF Invoke(f.method, b.args).raised
                     THEN EncodeError("internal-error", f.id)
                     ELSE EncodeResult(Invoke(f.method, b.args).v, <<>>, f.id)

(* Codec decoding and Dispatcher: the outbound frame for an inbound frame *)
Dispatch(reg, f) ==
    IF f.kind # "request" THEN EncodeError("parse-error", NoId)
    ELSE IF f.version # "2.0" THEN EncodeError("invalid-request", f.id)
    ELSE IF f.method = "list_functions"
            THEN EncodeResult(NoResult, list_functions(reg), f.id)
    ELSE IF lookup(reg, f.method) = NotFound
            THEN EncodeError("method-not-found", f.id)
    ELSE LET b == bind(lookup(reg, f.method).params, f.params)
         IN  IF ~ b.ok THEN EncodeError("invalid-params", f.id)
             ELSE IF Invoke(f.method, b.args).raised
                     THEN EncodeError("internal-error", f.id)
                     ELSE EncodeResult(Invoke(f.method, b.args).v, <<>>, f.id)

(* Whether Dispatch gets as far as invoking the target *)
Invokes(reg, f) ==
    /\ f.kind = "request"
    /\ f.version = "2.0"
    /\ f.method # "list_functions"
    /\ lookup(reg, f.method) # NotFound
    /\ bind(lookup(reg, f.method).params, f.params).ok

(* History of the channel: the outcome of the call answered before the one *)
(* in progress and its method, and whether the target of the call in       *)
(* progress was invoked.                                                   *)
NoCalls == [prev |-> "none", prev_method |-> "none", invoked |-> FALSE]

Outcome(r) == IF r.has_error THEN r.code ELSE "result"

(* The Transport Loop reads the next inbound frame *)
ReadFrame(f) ==
    /\ tpc = "read"
    /\ frame' = f
    /\ response' = NoOutbound
    /\ t_hist' = [t_hist EXCEPT !.invoked = FALSE]
    /\ tpc' = "dispatch"

(* A Transport Loop that a raising target takes down *)
Process_crashes_on_raise ==
    /\ tpc = "dispatch"
    /\ response' = Dispatch(registry, frame)
    /\ t_hist' = [t_hist EXCEPT !.invoked = Invokes(registry, frame)]
    /\ tpc' = IF Dispatch(registry, frame).code = "internal-error"
                 THEN "closed" ELSE "write"
    /\ UNCHANGED frame

(* The frame is decoded and dispatched, the response encoded *)
Process ==
    /\ tpc = "dispatch"
    /\ response' = Dispatch(registry, frame)
    /\ t_hist' = [t_hist EXCEPT !.invoked = Invokes(registry, frame)]
    /\ tpc' = "write"
    /\ UNCHANGED frame

(* The response frame is written to the outbound channel and flushed *)
WriteFrame ==
    /\ tpc = "write"
    /\ t_hist' = [t_hist EXCEPT !.prev = Outcome(response),
                                !.prev_method = frame.method]
    /\ tpc' = "read"
    /\ UNCHANGED <<frame, response>>

(* The inbound channel closes: the loop exits *)
ChannelCloses ==
    /\ tpc = "read"
    /\ tpc' = "closed"
    /\ UNCHANGED <<frame, response, t_hist>>

RpcIdle ==
    /\ tpc = "off"
    /\ frame = NoFrame
    /\ response = NoOutbound
    /\ t_hist = NoCalls

(* The Registry after a Discovery in which every unit loaded: the project  *)
(* root yielded my_tools, calc, tools (RegistryA) or tools, calc, my_tools *)
(* (RegistryB), then my_py_codes yielded calc again.                       *)
RegistryA ==
    RegisterAll(<<>>,
       Registered("my_tools", <<"my_py_codes", "tools">>, 1)
       \o Registered("calc", <<"my_py_codes", "calc">>, 1)
       \o Registered("tools", <<"tools">>, 2)
       \o Registered("calc", <<"calc">>, 1))

RegistryB ==
    RegisterAll(<<>>,
       Registered("tools", <<"tools">>, 2)
       \o Registered("calc", <<"my_py_codes", "calc">>, 1)
       \o Registered("my_tools", <<"my_py_codes", "tools">>, 1)
       \o Registered("calc", <<"calc">>, 1))

Range(seq) == {seq[i] : i \in 1..Len(seq)}



----------------------------------------------------------------------------
(* Specification of the Supervisor's main thread, its signal handler and   *)
(* the Transport Loop's outcomes.  The health thread and the file-exchange *)
(* poller are not running in it.                                           *)
FileIdle ==
    /\ request_file = Absent
    /\ response_file = NoResponse
    /\ fpc = "off"
    /\ request = NoValue
    /\ request_id = "unbound"
    /\ result = NoResult
    /\ f_hist = NoHist
    /\ dispatched = 0

Init == SupInit /\ HealthIdle /\ FileIdle /\ DiscIdle /\ RpcIdle

Next ==
    \/ signal_handler /\ UNCHANGED <<hVars, fileVars, discVars, rpcVars>>
    \/ LoopTest /\ UNCHANGED <<hVars, fileVars, discVars, rpcVars>>
    \/ Stamp /\ UNCHANGED <<hVars, fileVars, discVars, rpcVars>>
    \/ ConstructAndStart /\ UNCHANGED <<hVars, fileVars, discVars, rpcVars>>
    \/ ConstructRaises /\ UNCHANGED <<hVars, fileVars, discVars, rpcVars>>
    \/ \E d \in TickSteps :
          Tick(d, MaxClock) /\ UNCHANGED <<hVars, fileVars, discVars, rpcVars>>
    \/ ServerReturns /\ UNCHANGED <<hVars, fileVars, discVars, rpcVars>>
    \/ ServerRaises /\ UNCHANGED <<hVars, fileVars, discVars, rpcVars>>
    \/ ServerInterrupted /\ UNCHANGED <<hVars, fileVars, discVars, rpcVars>>
    \/ RetCheck /\ UNCHANGED <<hVars, fileVars, discVars, rpcVars>>
    \/ RetPolicy /\ UNCHANGED <<hVars, fileVars, discVars, rpcVars>>
    \/ RetIncr /\ UNCHANGED <<hVars, fileVars, discVars, rpcVars>>
    \/ RetSleep /\ UNCHANGED <<hVars, fileVars, discVars, rpcVars>>
    \/ ExcCheck /\ UNCHANGED <<hVars, fileVars, discVars, rpcVars>>
    \/ ExcPolicy /\ UNCHANGED <<hVars, fileVars, discVars, rpcVars>>
    \/ ExcIncr /\ UNCHANGED <<hVars, fileVars, discVars, rpcVars>>
    \/ ExcSleep /\ UNCHANGED <<hVars, fileVars, discVars, rpcVars>>

Spec == Init /\ [][Next]_vars


----------------------------------------------------------------------------
(* The health_monitor thread, lines 230-247, and _perform_health_check,    *)
(* lines 253-277.  Its sleeps take no model time: the clock is advanced by *)
(* the main thread's Tick and backoff sleeps, which the health thread      *)
(* observes whenever it reads time.time().                                 *)



(* A step of the health thread that clears the restart counter *)
HealthFrame_resets_count ==
    /\ restart_count' = 0
    /\ UNCHANGED <<running, last_restart_time, pc, now, signalled, constructs,
                   starts, failures, run_start, exit_reason>>
    /\ UNCHANGED <<fileVars, discVars, rpcVars>>

(* What no statement of health_monitor and _perform_health_check (lines    *)
(* 230-277) assigns: the fields of the Supervisor other than               *)
(* last_health_check, the processed set and the Registry.                  *)
HealthFrame ==
    UNCHANGED <<supVars, fileVars, discVars, rpcVars>>

(* line 231: while self.running *)
HLoopTest ==
    /\ hpc = "h_loop"
    /\ hpc' = IF running THEN "h_time" ELSE "h_done"
    /\ UNCHANGED <<last_health_check, h_uptime, status_file, h_functions,
                   h_outcome>>
    /\ UNCHANGED h_view

(* lines 233-241: current_time = time.time(); the interval test; the stamp *)
HReadTime ==
    /\ hpc = "h_time"
    /\ IF now - last_health_check > health_check_interval
          THEN last_health_check' = now /\ hpc' = "h_list"
          ELSE UNCHANGED last_health_check /\ hpc' = "h_sleep"
    /\ UNCHANGED <<h_uptime, status_file, h_functions, h_outcome>>
    /\ UNCHANGED h_view

(* line 257: self.registry.list_functions() returns *)
HListFunctions ==
    /\ hpc = "h_list"
    /\ h_functions' = list_functions(registry)
    /\ hpc' = "h_uptime"
    /\ UNCHANGED <<last_health_check, h_uptime, status_file, h_outcome>>
    /\ UNCHANGED h_view

(* The health thread with no handler around the check: it ends *)
HListRaises_stops ==
    /\ hpc = "h_list"
    /\ hpc' = "h_done"
    /\ h_outcome' = "failed"
    /\ UNCHANGED <<last_health_check, h_uptime, status_file, h_functions>>
    /\ UNCHANGED h_view

(* line 257 raising: caught at line 276, the check is abandoned *)
HListRaises ==
    /\ hpc = "h_list"
    /\ hpc' = "h_sleep"
    /\ h_outcome' = "failed"
    /\ UNCHANGED <<last_health_check, h_uptime, status_file, h_functions>>
    /\ UNCHANGED h_view

(* lines 264-268: uptime from last_restart_time *)
HComputeUptime ==
    /\ hpc = "h_uptime"
    /\ h_uptime' = IF last_restart_time > 0 THEN now - last_restart_time ELSE 0
    /\ hpc' = "h_write"
    /\ UNCHANGED <<last_health_check, status_file, h_functions, h_outcome>>
    /\ h_view' = [NoView EXCEPT
                    !.lrt = last_restart_time,
                    !.rc = restart_count,
                    !.ahead = pc \in {"construct", "serve", "ret_check",
                                      "ret_policy", "ret_incr", "exc_check",
                                      "exc_policy", "exc_incr"}]

(* lines 270-274: restart_count is read and the status artifact is written *)
HWriteStatus ==
    /\ hpc = "h_write"
    /\ status_file' = [kind |-> "status", uptime |-> h_uptime,
                       function_count |-> Len(h_functions),
                       restart_count |-> restart_count]
    /\ hpc' = "h_sleep"
    /\ h_uptime' = 0
    /\ h_functions' = <<>>
    /\ h_outcome' = "ok"
    /\ UNCHANGED last_health_check
    /\ h_view' = [h_view EXCEPT
                    !.lrt2 = last_restart_time,
                    !.rc2 = restart_count,
                    !.written = TRUE]

(* line 273 raising: caught at line 276, nothing is written *)
HWriteRaises ==
    /\ hpc = "h_write"
    /\ hpc' = "h_sleep"
    /\ h_uptime' = 0
    /\ h_functions' = <<>>
    /\ h_outcome' = "failed"
    /\ UNCHANGED <<last_health_check, status_file>>
    /\ UNCHANGED h_view

(* line 243: time.sleep(5), then back to the loop test *)
HSleep ==
    /\ hpc = "h_sleep"
    /\ hpc' = "h_loop"
    /\ UNCHANGED <<last_health_check, h_uptime, status_file, h_functions,
                   h_outcome>>
    /\ h_view' = NoView

----------------------------------------------------------------------------
(* Specification of the Supervisor with its health thread.  Fairness is    *)
(* assumed of what the interpreter schedules: the steps of the main thread *)
(* and of the health thread.  Nothing is assumed of the outside world: a   *)
(* blocked server.start() may never return and no signal need arrive.      *)
LiveInit == SupInit /\ HealthInit /\ FileIdle /\ DiscIdle /\ RpcIdle

MainStep ==
    \/ LoopTest
    \/ Stamp
    \/ ConstructAndStart
    \/ RetCheck
    \/ RetPolicy
    \/ RetIncr
    \/ RetSleep
    \/ ExcCheck
    \/ ExcPolicy
    \/ ExcIncr
    \/ ExcSleep

HealthStep ==
    \/ HLoopTest
    \/ HReadTime
    \/ HListFunctions
    \/ HComputeUptime
    \/ HWriteStatus
    \/ HSleep

LiveNext ==
    \/ signal_handler /\ UNCHANGED <<hVars, fileVars, discVars, rpcVars>>
    \/ LoopTest /\ UNCHANGED <<hVars, fileVars, discVars, rpcVars>>
    \/ Stamp /\ UNCHANGED <<hVars, fileVars, discVars, rpcVars>>
    \/ ConstructAndStart /\ UNCHANGED <<hVars, fileVars, discVars, rpcVars>>
    \/ ConstructRaises /\ UNCHANGED <<hVars, fileVars, discVars, rpcVars>>
    \/ \E d \in TickSteps :
          Tick(d, HealthHorizon) /\ UNCHANGED <<hVars, fileVars, discVars, rpcVars>>
    \/ ServerReturns /\ UNCHANGED <<hVars, fileVars, discVars, rpcVars>>
    \/ ServerRaises /\ UNCHANGED <<hVars, fileVars, discVars, rpcVars>>
    \/ ServerInterrupted /\ UNCHANGED <<hVars, fileVars, discVars, rpcVars>>
    \/ RetCheck /\ UNCHANGED <<hVars, fileVars, discVars, rpcVars>>
    \/ RetPolicy /\ UNCHANGED <<hVars, fileVars, discVars, rpcVars>>
    \/ RetIncr /\ UNCHANGED <<hVars, fileVars, discVars, rpcVars>>
    \/ RetSleep /\ UNCHANGED <<hVars, fileVars, discVars, rpcVars>>
    \/ ExcCheck /\ UNCHANGED <<hVars, fileVars, discVars, rpcVars>>
    \/ ExcPolicy /\ UNCHANGED <<hVars, fileVars, discVars, rpcVars>>
    \/ ExcIncr /\ UNCHANGED <<hVars, fileVars, discVars, rpcVars>>
    \/ ExcSleep /\ UNCHANGED <<hVars, fileVars, discVars, rpcVars>>
    \/ HLoopTest /\ HealthFrame
    \/ HReadTime /\ HealthFrame
    \/ HListFunctions /\ HealthFrame
    \/ HListRaises /\ HealthFrame
    \/ HComputeUptime /\ HealthFrame
    \/ HWriteStatus /\ HealthFrame
    \/ HWriteRaises /\ HealthFrame
    \/ HSleep /\ HealthFrame

LiveSpec ==
    /\ LiveInit
    /\ [][LiveNext]_vars
    /\ WF_vars(MainStep /\ UNCHANGED <<hVars, fileVars, discVars, rpcVars>>)
    /\ WF_vars(HealthStep /\ HealthFrame)



----------------------------------------------------------------------------
(* Specification of the Supervisor with its health thread over two         *)
(* restarts: the clock advances by the cooldown while a Transport Loop     *)
(* runs, and the two threads interleave freely.                            *)
SnapshotHorizon == 125

SnapshotNext ==
    \/ signal_handler /\ UNCHANGED <<hVars, fileVars, discVars, rpcVars>>
    \/ LoopTest /\ UNCHANGED <<hVars, fileVars, discVars, rpcVars>>
    \/ Stamp /\ UNCHANGED <<hVars, fileVars, discVars, rpcVars>>
    \/ ConstructAndStart /\ UNCHANGED <<hVars, fileVars, discVars, rpcVars>>
    \/ ConstructRaises /\ UNCHANGED <<hVars, fileVars, discVars, rpcVars>>
    \/ Tick(restart_cooldown, SnapshotHorizon)
          /\ UNCHANGED <<hVars, fileVars, discVars, rpcVars>>
    \/ ServerReturns /\ UNCHANGED <<hVars, fileVars, discVars, rpcVars>>
    \/ ServerRaises /\ UNCHANGED <<hVars, fileVars, discVars, rpcVars>>
    \/ ServerInterrupted /\ UNCHANGED <<hVars, fileVars, discVars, rpcVars>>
    \/ RetCheck /\ UNCHANGED <<hVars, fileVars, discVars, rpcVars>>
    \/ RetPolicy /\ UNCHANGED <<hVars, fileVars, discVars, rpcVars>>
    \/ RetIncr /\ UNCHANGED <<hVars, fileVars, discVars, rpcVars>>
    \/ RetSleep /\ UNCHANGED <<hVars, fileVars, discVars, rpcVars>>
    \/ ExcCheck /\ UNCHANGED <<hVars, fileVars, discVars, rpcVars>>
    \/ ExcPolicy /\ UNCHANGED <<hVars, fileVars, discVars, rpcVars>>
    \/ ExcIncr /\ UNCHANGED <<hVars, fileVars, discVars, rpcVars>>
    \/ ExcSleep /\ UNCHANGED <<hVars, fileVars, discVars, rpcVars>>
    \/ HLoopTest /\ HealthFrame
    \/ HReadTime /\ HealthFrame
    \/ HListFunctions /\ HealthFrame
    \/ HListRaises /\ HealthFrame
    \/ HComputeUptime /\ HealthFrame
    \/ HWriteStatus /\ HealthFrame
    \/ HWriteRaises /\ HealthFrame
    \/ HSleep /\ HealthFrame

SnapshotSpec == LiveInit /\ [][SnapshotNext]_vars


----------------------------------------------------------------------------
(* Specification of the whole worker process from the start of Discovery:  *)
(* __init__ (Discovery, signal handlers, health thread), then start() with *)
(* the health thread running beside it.  The clock advances by the         *)
(* cooldown while the Transport Loop runs.                                 *)
BootHorizon == 65

BootInit ==
    /\ running = TRUE
    /\ restart_count = 0
    /\ last_restart_time = 0
    /\ pc = "search"
    /\ now = 1
    /\ signalled = FALSE
    /\ constructs = 0
    /\ starts = 0
    /\ failures = 0
    /\ run_start = 0
    /\ exit_reason = "none"
    /\ HealthIdle
    /\ FileIdle
    /\ DiscInit
    /\ RpcIdle

BootNext ==
    \/ SearchNext /\ UNCHANGED <<hVars, fileVars, rpcVars>>
    \/ \E u \in Units : ScanUnit(u) /\ UNCHANGED <<hVars, fileVars, rpcVars>>
    \/ ScanEnumFails /\ UNCHANGED <<hVars, fileVars, rpcVars>>
    \/ ScanReturn /\ UNCHANGED <<hVars, fileVars, rpcVars>>
    \/ ListDiscovered /\ UNCHANGED <<hVars, fileVars, rpcVars>>
    \/ InstallHandlers /\ UNCHANGED <<hVars, fileVars, rpcVars>>
    \/ StartHealthMonitor /\ UNCHANGED <<fileVars, discVars, rpcVars>>
    \/ EnterStart /\ UNCHANGED <<hVars, fileVars, discVars, rpcVars>>
    \/ signal_handler /\ UNCHANGED <<hVars, fileVars, discVars, rpcVars>>
    \/ LoopTest /\ UNCHANGED <<hVars, fileVars, discVars, rpcVars>>
    \/ Stamp /\ UNCHANGED <<hVars, fileVars, discVars, rpcVars>>
    \/ ConstructAndStart /\ UNCHANGED <<hVars, fileVars, discVars, rpcVars>>
    \/ ConstructRaises /\ UNCHANGED <<hVars, fileVars, discVars, rpcVars>>
    \/ Tick(restart_cooldown, BootHorizon)
          /\ UNCHANGED <<hVars, fileVars, discVars, rpcVars>>
    \/ ServerReturns /\ UNCHANGED <<hVars, fileVars, discVars, rpcVars>>
    \/ ServerRaises /\ UNCHANGED <<hVars, fileVars, discVars, rpcVars>>
    \/ ServerInterrupted /\ UNCHANGED <<hVars, fileVars, discVars, rpcVars>>
    \/ RetCheck /\ UNCHANGED <<hVars, fileVars, discVars, rpcVars>>
    \/ RetPolicy /\ UNCHANGED <<hVars, fileVars, discVars, rpcVars>>
    \/ RetIncr /\ UNCHANGED <<hVars, fileVars, discVars, rpcVars>>
    \/ RetSleep /\ UNCHANGED <<hVars, fileVars, discVars, rpcVars>>
    \/ ExcCheck /\ UNCHANGED <<hVars, fileVars, discVars, rpcVars>>
    \/ ExcPolicy /\ UNCHANGED <<hVars, fileVars, discVars, rpcVars>>
    \/ ExcIncr /\ UNCHANGED <<hVars, fileVars, discVars, rpcVars>>
    \/ ExcSleep /\ UNCHANGED <<hVars, fileVars, discVars, rpcVars>>
    \/ HLoopTest /\ HealthFrame
    \/ HReadTime /\ HealthFrame
    \/ HListFunctions /\ HealthFrame
    \/ HListRaises /\ HealthFrame
    \/ HComputeUptime /\ HealthFrame
    \/ HWriteStatus /\ HealthFrame
    \/ HWriteRaises /\ HealthFrame
    \/ HSleep /\ HealthFrame

BootSpec == BootInit /\ [][BootNext]_vars


----------------------------------------------------------------------------
(* Specification of Discovery alone, lines 144-225, on a project tree that *)
(* holds, beside the three source units, a file for each reason the test   *)
(* of lines 190-197 has to pass a file over.                               *)
ScanInit ==
    /\ running = TRUE
    /\ restart_count = 0
    /\ last_restart_time = 0
    /\ pc = "search"
    /\ now = 1
    /\ signalled = FALSE
    /\ constructs = 0
    /\ starts = 0
    /\ failures = 0
    /\ run_start = 0
    /\ exit_reason = "none"
    /\ HealthIdle
    /\ FileIdle
    /\ RpcIdle
    /\ fs_load \in {Tree(g, Units \ SourceUnits) :
                       g \in [SourceUnits -> LoadOutcomes]}
    /\ search_idx = 1
    /\ scan_seen = {}
    /\ scan_count = 0
    /\ discovered_count = 0
    /\ discovered_modules = {}
    /\ registry = <<>>
    /\ functions = <<>>
    /\ d_hist = NoDiscHist

ScanNext ==
    \/ SearchNext /\ UNCHANGED <<hVars, fileVars, rpcVars>>
    \/ \E u \in Units : ScanUnit(u) /\ UNCHANGED <<hVars, fileVars, rpcVars>>
    \/ ScanEnumFails /\ UNCHANGED <<hVars, fileVars, rpcVars>>
    \/ ScanReturn /\ UNCHANGED <<hVars, fileVars, rpcVars>>
    \/ ListDiscovered /\ UNCHANGED <<hVars, fileVars, rpcVars>>

ScanSpec == ScanInit /\ [][ScanNext]_vars


----------------------------------------------------------------------------
(* Specification of the stream binding: one Transport Loop serving the     *)
(* frames its peer sends.                                                  *)
(* The state in which server.start() begins to read: Discovery is over and *)
(* the first Transport Loop has been started.                              *)
RpcInit ==
    /\ running = TRUE
    /\ restart_count = 0
    /\ last_restart_time = 1
    /\ pc = "serve"
    /\ now = 1
    /\ signalled = FALSE
    /\ constructs = 1
    /\ starts = 1
    /\ failures = 0
    /\ run_start = 1
    /\ exit_reason = "none"
    /\ HealthIdle
    /\ FileIdle
    /\ fs_load = Tree([u \in SourceUnits |-> "ok"], {"glue"})
    /\ search_idx = Len(search_paths) + 1
    /\ scan_seen = {}
    /\ scan_count = 0
    /\ discovered_count = 0
    /\ discovered_modules =
          {<<"tools">>, <<"my_py_codes", "tools">>, <<"my_py_codes", "calc">>,
           <<"calc">>}
    /\ registry \in {RegistryA, RegistryB}
    /\ functions = <<>>
    /\ d_hist = [latest |-> Range(registry), base |-> 0,
                 enum_failed |-> FALSE]
    /\ tpc = "read"
    /\ frame = NoFrame
    /\ response = NoOutbound
    /\ t_hist = NoCalls

RpcNext ==
    \/ \E f \in Frames :
          ReadFrame(f) /\ UNCHANGED <<supVars, hVars, fileVars, discVars>>
    \/ Process /\ UNCHANGED <<supVars, hVars, fileVars, discVars>>
    \/ WriteFrame /\ UNCHANGED <<supVars, hVars, fileVars, discVars>>
    \/ ChannelCloses /\ UNCHANGED <<supVars, hVars, fileVars, discVars>>

RpcSpec == RpcInit /\ [][RpcNext]_vars


----------------------------------------------------------------------------
(* Specification of the file-exchange binding: watch_for_requests and the  *)
(* peer.  The Supervisor is not part of that program.                      *)
FileSpecInit == SupInit /\ HealthIdle /\ FileInit /\ DiscIdle /\ RpcIdle

FileNext ==
    \/ \E c \in PeerContents :
          PeerWrites(c) /\ UNCHANGED <<supVars, hVars, discVars, rpcVars>>
    \/ PeerOpens /\ UNCHANGED <<supVars, hVars, discVars, rpcVars>>
    \/ PeerWritesPart /\ UNCHANGED <<supVars, hVars, discVars, rpcVars>>
    \/ \E v \in RequestValues :
          PeerCompletes(v) /\ UNCHANGED <<supVars, hVars, discVars, rpcVars>>
    \/ PeerTakesResponse /\ UNCHANGED <<supVars, hVars, discVars, rpcVars>>
    \/ Poll /\ UNCHANGED <<supVars, hVars, discVars, rpcVars>>
    \/ ReadRequest /\ UNCHANGED <<supVars, hVars, discVars, rpcVars>>
    \/ Cleanup /\ UNCHANGED <<supVars, hVars, discVars, rpcVars>>
    \/ GetFields /\ UNCHANGED <<supVars, hVars, discVars, rpcVars>>
    \/ Call /\ UNCHANGED <<supVars, hVars, discVars, rpcVars>>
    \/ RespondOpen /\ UNCHANGED <<supVars, hVars, discVars, rpcVars>>
    \/ RespondDump /\ UNCHANGED <<supVars, hVars, discVars, rpcVars>>
    \/ UnlinkRequest /\ UNCHANGED <<supVars, hVars, discVars, rpcVars>>
    \/ Except /\ UNCHANGED <<supVars, hVars, discVars, rpcVars>>
    \/ ErrorOpen /\ UNCHANGED <<supVars, hVars, discVars, rpcVars>>
    \/ ErrorDump /\ UNCHANGED <<supVars, hVars, discVars, rpcVars>>
    \/ Sleep /\ UNCHANGED <<supVars, hVars, discVars, rpcVars>>

FileSpec == FileSpecInit /\ [][FileNext]_vars


----------------------------------------------------------------------------
(* Claims about the Supervisor                                             *)

PolicyPcs == {"ret_policy", "exc_policy"}
IncrPcs == {"ret_incr", "exc_incr"}

(* What the restart policy is said to require *)
PolicyGrants ==
    /\ restart_count < max_restarts
    /\ now - last_restart_time >= restart_cooldown

(* C1: in every reachable state restart_count <= max_restarts; every start *)
(* of the Transport Loop after the first follows an increment of           *)
(* restart_count, so the Transport Loop is constructed and started at most *)
(* max_restarts + 1 times.                                                 *)
C1_RestartBound ==
    /\ restart_count <= max_restarts
    /\ starts <= constructs
    /\ constructs <= restart_count + 1
    /\ starts <= max_restarts + 1

C1_Witness ==
    /\ restart_count = max_restarts
    /\ starts = max_restarts + 1
    /\ pc = "done"
    /\ exit_reason = "denied"

(* C2: the Transport Loop is restarted only if restart_count <             *)
(* max_restarts and at least restart_cooldown seconds have elapsed since   *)
(* last_restart_time, which is the instant the run that just ended was     *)
(* started; otherwise restart_count is unchanged, nothing is started and   *)
(* the loop of start() exits.                                              *)
C2_RestartOnlyIfPolicy ==
    [][ /\ (pc \in PolicyPcs => last_restart_time = run_start)
        /\ (restart_count' # restart_count =>
               /\ pc \in IncrPcs
               /\ restart_count' = restart_count + 1)
        /\ (pc' \in IncrPcs /\ pc' # pc => pc \in PolicyPcs /\ PolicyGrants)
        /\ (pc \in PolicyPcs /\ ~ PolicyGrants /\ pc' # pc =>
               /\ pc' = "done"
               /\ restart_count' = restart_count
               /\ starts' = starts
               /\ constructs' = constructs)
        /\ (pc = "done" => pc' = "done" /\ constructs' = constructs)
      ]_vars

C2_Witness ==
    /\ pc = "ret_incr"
    /\ restart_count = 3
    /\ now - last_restart_time = restart_cooldown

C4_NoStartAfterSignal ==
    [][signalled => starts' = starts /\ constructs' = constructs]_vars

(* C5: after a termination signal is delivered, the main loop eventually   *)
(* exits (the Supervisor is stopped) and the health-check timer loop       *)
(* eventually stops.                                                       *)
C5_SignalLeadsToStop ==
    signalled ~> (pc = "done" /\ hpc = "h_done")

(* C6: restart_count never decreases and is never reset; every Transport   *)
(* Loop start re-stamps last_restart_time (so a run longer than the        *)
(* cooldown is eligible for a restart) and leaves restart_count as it is;  *)
(* the number of restarts stays bounded by max_restarts.                   *)
C6_CounterNeverReset ==
    [][ /\ restart_count' >= restart_count
        /\ restart_count' <= max_restarts
        /\ (constructs' # constructs =>
               /\ last_restart_time = now
               /\ restart_count' = restart_count
               /\ constructs' = restart_count + 1)
        /\ (/\ pc \in PolicyPcs
            /\ pc' # pc
            /\ now - last_restart_time >= restart_cooldown
            /\ restart_count < max_restarts
            => pc' \in IncrPcs)
      ]_vars

C6_Witness ==
    /\ pc = "ret_incr"
    /\ restart_count = 2
    /\ now - last_restart_time > restart_cooldown


----------------------------------------------------------------------------
(* Claims about the file-exchange binding.  f_hist describes the poll      *)
(* iteration in progress and, while fpc = "poll", the one that just ended. *)

(* A call that fails: the parsed value is no mapping, the function name is *)
(* unknown, or add_numbers raises on the args (wrong number, not numeric)  *)
CallFails(v) ==
    \/ v.shape # "mapping"
    \/ v.function # "add_numbers"
    \/ add_numbers(v.args).raised

(* The request_id of the artifact an iteration has read, None if it has    *)
(* none                                                                    *)
IdOf(c) ==
    IF c.kind = "json" /\ c.val.shape = "mapping"
       THEN c.val.request_id ELSE "None"

(* C7: every request artifact whose call fails results in a response       *)
(* artifact with success = false: at the end of the iteration that read    *)
(* it, a response was written and the last one written says success =      *)
(* false.                                                                  *)
C7_FailedCallAnswersFalse ==
    (/\ fpc = "poll"
     /\ f_hist.req.kind = "json"
     /\ CallFails(f_hist.req.val))
    => f_hist.wrote = "error"

(* C8: every response artifact written carries the request_id of the       *)
(* request artifact read in the same poll iteration.                       *)
C8_ResponseCarriesOwnId ==
    f_hist.wrote # "no" => f_hist.resp_id = IdOf(f_hist.req)

(* C9: for a request that is parsed and dispatched without error, the      *)
(* response artifact is completely written (with that request's result and *)
(* id, success = true) before the request artifact is deleted, and the     *)
(* request artifact is deleted before the next poll.                       *)
C9_ResponseBeforeDelete ==
    /\ [](f_hist.called /\ f_hist.deleted => f_hist.wrote = "success")
    /\ [](fpc \in {"sleep", "poll"} /\ f_hist.wrote = "success"
             => f_hist.deleted)
    /\ [][ /\ (f_hist'.wrote = "success" /\ f_hist.wrote # "success" =>
                  /\ response_file' =
                        Response(add_numbers(request.args).value,
                                 request.request_id, TRUE)
                     \/ response_file' =
                        Response(UnknownFunction, request.request_id, TRUE)
                  /\ request = f_hist.req.val
                  /\ request_file' = request_file
                  /\ ~ f_hist'.deleted)
           /\ (f_hist'.deleted /\ ~ f_hist.deleted =>
                  /\ request_file'.kind = "absent"
                  /\ response_file' = response_file)
         ]_vars

C9_Witness ==
    /\ fpc = "sleep"
    /\ f_hist.req = Json(Mapping("add_numbers", TRUE, <<str3, num2>>, "r2"))
    /\ f_hist.wrote = "success"
    /\ f_hist.deleted
    /\ response_file = Response([t |-> "num", v |-> 5], "r2", TRUE)
    /\ request_file = Absent

(* C10: a request artifact that is non-empty but cannot be parsed as JSON  *)
(* is deleted by the iteration that read it, without being dispatched.     *)
C10_UnparseableDiscarded ==
    (/\ fpc = "poll"
     /\ f_hist.req.kind \in {"blank", "garbled", "undecodable"})
    => f_hist.deleted /\ ~ f_hist.called


----------------------------------------------------------------------------
(* Claims about Discovery and the Registry                                 *)

DiscoveryPcs == {"search", "scan", "list"}

(* The search paths that exist, by position *)
Roots == {i \in 1..Len(search_paths) : exists(search_paths[i])}

(* Unit u under root i is eligible and its load succeeds *)
Loadable(i, u) ==
    /\ u \in UnitsUnder(search_paths[i])
    /\ ~ skipped(u)
    /\ fs_load[u] = "ok"

(* C11: a load failure of one source unit never aborts Discovery: when     *)
(* Discovery is over (and no directory enumeration failed), every eligible *)
(* unit of every root whose load succeeds has its identity in the          *)
(* processed set, whatever the other units did; only identities of units   *)
(* that loaded are in the set, and only they are counted.                  *)
C11_LoadFailureSkipped ==
    (pc \notin {"search", "scan"} /\ ~ d_hist.enum_failed) =>
        /\ \A i \in Roots : \A u \in Units :
              Loadable(i, u) =>
                 module_name(search_paths[i], u) \in discovered_modules
        /\ \A m \in discovered_modules :
              \E i \in Roots : \E u \in Units :
                 Loadable(i, u) /\ module_name(search_paths[i], u) = m
        /\ (pc = "list" =>
               discovered_count = Cardinality(discovered_modules))

(* C12: a unit is loaded only if its derived module identity is not yet in *)
(* the processed set; a load that succeeds adds exactly that identity; and *)
(* the count a directory scan returns is the number of identities the scan *)
(* added to the processed set.                                             *)
C12_ProcessedSetAndCount ==
    /\ [](pc = "scan" =>
             scan_count = Cardinality(discovered_modules) - d_hist.base)
    /\ [][ /\ (registry' # registry \/ discovered_modules' # discovered_modules
                  \/ scan_count' > scan_count
               => \E u \in UnitsUnder(search_paths[search_idx]) \ scan_seen :
                     LET m == module_name(search_paths[search_idx], u)
                     IN  /\ scan_seen' = scan_seen \cup {u}
                         /\ m \notin discovered_modules
                         /\ \/ /\ fs_load[u] = "ok"
                               /\ discovered_modules' =
                                     discovered_modules \cup {m}
                               /\ scan_count' = scan_count + 1
                            \/ /\ fs_load[u] # "ok"
                               /\ discovered_modules' = discovered_modules
                               /\ scan_count' = scan_count)
           /\ (pc = "scan" /\ pc' = "search" =>
                  discovered_count' = discovered_count
                     + (Cardinality(discovered_modules) - d_hist.base))
         ]_vars

C12_Witness ==
    /\ pc = "search"
    /\ search_idx = 3
    /\ discovered_count = 4
    /\ discovered_modules =
          {<<"tools">>, <<"my_py_codes", "tools">>, <<"my_py_codes", "calc">>,
           <<"calc">>}

(* C13: every module load and Registry write of Discovery happens before   *)
(* the health thread is started and before the first Transport Loop is     *)
(* constructed; once Discovery has completed the main thread never returns *)
(* to it, whatever restarts follow.                                        *)
C13_DiscoveryBeforeThreads ==
    [][ /\ (registry' # registry \/ discovered_modules' # discovered_modules
               => /\ pc = "scan"
                  /\ hpc = "h_off" /\ hpc' = "h_off"
                  /\ constructs = 0 /\ starts = 0
                  /\ tpc = "off")
        /\ (pc \notin DiscoveryPcs => pc' \notin DiscoveryPcs)
        /\ (hpc # "h_off" \/ constructs' > 0 => pc \notin DiscoveryPcs)
      ]_vars

C13_Witness ==
    /\ constructs = 2
    /\ pc = "serve"
    /\ hpc = "h_uptime"
    /\ Len(registry) = 3
    /\ Len(h_functions) = 3

(* C14: a health check that fails (listing the Registry or writing the    *)
(* status artifact raises) leaves running, restart_count,                  *)
(* last_restart_time and the position of the main thread as they are and   *)
(* does not end the health thread: the thread goes to its sleep, tests     *)
(* running again and checks again once the interval has elapsed; it ends   *)
(* only when running is cleared.                                           *)
C14_HealthFailureContained ==
    /\ [](hpc = "h_done" => ~ running)
    /\ [][ /\ (\/ hpc = "h_list" /\ hpc' \notin {"h_list", "h_uptime"}
               \/ hpc = "h_write" /\ hpc' # hpc /\ h_outcome' = "failed"
               => /\ hpc' = "h_sleep"
                  /\ h_outcome' = "failed"
                  /\ running' = running
                  /\ restart_count' = restart_count
                  /\ last_restart_time' = last_restart_time
                  /\ pc' = pc
                  /\ starts' = starts)
           /\ (hpc = "h_sleep" /\ hpc' # hpc => hpc' = "h_loop")
           /\ (hpc = "h_loop" /\ hpc' # hpc /\ running => hpc' = "h_time")
           /\ (/\ hpc = "h_time"
               /\ hpc' # hpc
               /\ now - last_health_check > health_check_interval
               => hpc' = "h_list")
         ]_vars

C14_Witness ==
    /\ h_outcome = "failed"
    /\ hpc = "h_write"
    /\ status_file.kind = "absent"
    /\ pc = "serve"
    /\ running

NoDuplicates(seq) ==
    \A i, j \in 1..Len(seq) : seq[i] = seq[j] => i = j

RegisteredNames == {d.name : d \in d_hist.latest}

ListsRegistered(seq) ==
    /\ NoDuplicates(seq)
    /\ {seq[i] : i \in 1..Len(seq)} = RegisteredNames

(* C19: list_functions returns every registered name exactly once, in      *)
(* whatever order the functions were registered: the listing taken at the  *)
(* end of Discovery and the one a health check takes hold the registered   *)
(* names, none twice.                                                      *)
C19_ListFunctionsExact ==
    /\ (pc = "handlers" => ListsRegistered(functions))
    /\ (hpc \in {"h_uptime", "h_write"} => ListsRegistered(h_functions))

C19_Witness ==
    /\ pc = "handlers"
    /\ functions = <<"add", "greet", "boom">>

(* C20: after any sequence of registrations the Registry holds exactly one *)
(* descriptor per registered name, and lookup returns the descriptor       *)
(* registered most recently under that name.                               *)
C20_LastWriterWins ==
    /\ \A d \in d_hist.latest : lookup(registry, d.name) = d
    /\ \A i \in 1..Len(registry) : registry[i] \in d_hist.latest
    /\ NoDuplicates(list_functions(registry))
    /\ lookup(registry, "nope") = NotFound

C20_Witness ==
    /\ pc = "handlers"
    /\ <<"tools">> \in discovered_modules
    /\ HasName(registry, "boom")
    /\ lookup(registry, "add").module = <<"my_py_codes", "tools">>
    /\ lookup(registry, "add").params[2].required


----------------------------------------------------------------------------
(* Claims about the stream binding, the Codec and the Dispatcher           *)

ErrorCodes ==
    {"parse-error", "invalid-request", "method-not-found", "invalid-params",
     "internal-error"}

ValidRequest(f) == f.kind = "request" /\ f.version = "2.0"

(* The descriptor registered most recently under the method of frame f *)
Target(f) == CHOOSE d \in d_hist.latest : d.name = f.method

(* Well-formed calls and their normal results *)
NormalResult(f) ==
    CASE f.method = "add" /\ f.params = {<<"a", num2>>, <<"b", num3>>} ->
           [t |-> "num", v |-> 5]
      [] f.method = "greet" /\ f.params = {<<"name", Alice>>} ->
           [t |-> "greeting", v |-> 31]
      [] f.method = "greet"
            /\ f.params = {<<"name", Alice>>, <<"title", Dr>>} ->
           [t |-> "greeting", v |-> 21]
      [] OTHER -> NoResult

(* C15: after any per-call error the Transport Loop keeps running and the  *)
(* channel stays open (the loop ends only when the peer closes the inbound *)
(* channel), and a following well-formed call to a different registered    *)
(* method is dispatched and answered with its normal result.               *)
C15_ErrorsLeaveChannelOpen ==
    /\ [](/\ tpc = "write"
          /\ t_hist.prev \in ErrorCodes
          /\ ValidRequest(frame)
          /\ frame.method # t_hist.prev_method
          /\ NormalResult(frame) # NoResult
          => /\ t_hist.invoked
             /\ response = EncodeResult(NormalResult(frame), <<>>, frame.id))
    /\ [][ /\ (tpc' = "closed" /\ tpc # "closed" => tpc = "read")
           /\ (tpc = "dispatch" /\ tpc' # tpc => tpc' = "write")
           /\ (tpc = "write" /\ tpc' # tpc => tpc' = "read")
         ]_vars

C15_Witness ==
    /\ tpc = "write"
    /\ t_hist.prev = "internal-error"
    /\ t_hist.prev_method = "boom"
    /\ frame = Request("add", {<<"a", num2>>, <<"b", num3>>}, Id("abc"))
    /\ response.has_result
    /\ response.result = [t |-> "num", v |-> 5]

(* C16: a request naming a method that is not registered and is not the    *)
(* reserved list_functions is answered with a method-not-found error: no   *)
(* result, no target invoked, and the Transport Loop goes on to write the  *)
(* response and read again.                                                *)
C16_UnknownMethodNotFound ==
    /\ [](/\ tpc = "write"
          /\ ValidRequest(frame)
          /\ frame.method \notin RegisteredNames \cup {"list_functions"}
          => /\ response.has_error
             /\ response.code = "method-not-found"
             /\ ~ response.has_result
             /\ ~ t_hist.invoked)
    /\ [][ /\ tpc = "dispatch"
           /\ ValidRequest(frame)
           /\ frame.method \notin RegisteredNames \cup {"list_functions"}
           /\ tpc' # tpc
           => tpc' = "write"
         ]_vars

C16_Witness ==
    /\ tpc = "read"
    /\ frame = Request("nope", {<<"a", num2>>}, NoId)
    /\ response = EncodeError("method-not-found", NoId)
    /\ t_hist.prev = "method-not-found"

(* The value the call of frame f passes for parameter p *)
Passed(f, p) ==
    IF BagHas(f.params, p.name) THEN BagGet(f.params, p.name) ELSE p.default

(* C17: a call that omits a required parameter of its target is answered   *)
(* with invalid-params and the target is not invoked; otherwise a supplied *)
(* optional parameter overrides its default and an omitted one takes it.   *)
(* For add(a, b=0): {a:2} gives 2, {a:2,b:3} gives 5, {} gives             *)
(* invalid-params; for greet(name, title="User") the title is the one      *)
(* supplied, or User.                                                      *)
C17_ParameterBinding ==
    (/\ tpc = "write"
     /\ ValidRequest(frame)
     /\ frame.method \in RegisteredNames) =>
       LET d == Target(frame)
           missing == \E i \in 1..Len(d.params) :
                         /\ d.params[i].required
                         /\ ~ BagHas(frame.params, d.params[i].name)
       IN  /\ missing =>
                /\ response = EncodeError("invalid-params", frame.id)
                /\ ~ t_hist.invoked
           /\ (/\ ~ missing
               /\ frame.method = "add"
               /\ BagGet(frame.params, "a").t = "num"
               => /\ t_hist.invoked
                  /\ response.has_result
                  /\ response.result.v =
                        BagGet(frame.params, "a").v
                           + Passed(frame, d.params[2]).v)
           /\ (~ missing /\ frame.method = "greet"
               => /\ response.has_result
                  /\ response.result.v =
                        Passed(frame, d.params[2]).v * 10
                           + BagGet(frame.params, "name").v)
           /\ (/\ frame.method = "add"
               /\ ~ d.params[2].required
               /\ d.params[2].default = num0
               => /\ frame.params = {<<"a", num2>>}
                     => response.has_result /\ response.result.v = 2
                  /\ frame.params = {<<"a", num2>>, <<"b", num3>>}
                     => response.has_result /\ response.result.v = 5
                  /\ frame.params = {}
                     => response.code = "invalid-params")

C17_Witness ==
    /\ tpc = "write"
    /\ registry = RegistryA
    /\ frame = Request("add", {<<"a", num2>>}, Id("abc"))
    /\ response = EncodeResult([t |-> "num", v |-> 2], <<>>, Id("abc"))

(* C18: every response carries the correlation id of the request it        *)
(* answers, unchanged, and no id when the request has none; it holds       *)
(* exactly one of result and error.                                        *)
C18_IdEchoedOneOutcome ==
    tpc = "write" =>
       /\ response.id = frame.id
       /\ response.has_result # response.has_error

C18_Witness ==
    /\ tpc = "write"
    /\ frame = Request("boom", {}, Id("abc"))
    /\ response.has_error
    /\ response.id = Id("abc")

----------------------------------------------------------------------------
(* C21: Discovery that ends with no registered function is not fatal.      *)
(* With an empty Registry the main thread goes from the listing to the     *)
(* installation of the signal handlers, to the start of the health thread  *)
(* and into start(); it never ends the process there, and no Transport     *)
(* Loop is started while the health thread is not.                         *)
C21_ZeroFunctionsNonFatal ==
    [][ Len(registry) = 0 =>
          /\ pc = "list" => pc' = "handlers"
          /\ pc = "handlers" => pc' = "monitor"
          /\ pc = "monitor" =>
                \/ pc' = "monitor"
                \/ pc' = "main" /\ hpc' = "h_loop"
          /\ pc = "main" => pc' \in {"main", "loop"}
          /\ starts' > 0 => hpc' # "h_off" ]_vars

(* The tree holds no source unit (no candidate root but the working        *)
(* directory exists), nothing is registered, and the health thread and a   *)
(* Transport Loop run.                                                     *)
C21_Witness ==
    /\ \A u \in Units : ~Present(u)
    /\ Len(registry) = 0
    /\ hpc # "h_off"
    /\ pc = "serve"
    /\ starts = 1

----------------------------------------------------------------------------
(* Claims about the file-exchange binding under interleaving with the peer *)

(* C22: the poller never parses or deletes a request artifact the peer has *)
(* only partially written: no poll iteration hands such an artifact to the *)
(* parser (ReadRequest) or unlinks it.                                     *)
C22_PartialWriteNotConsumed ==
    f_hist.req.kind # "partial"

(* C23: a request artifact the peer has written once is dispatched at most *)
(* once, also when its processing raises.                                  *)
C23_DispatchedAtMostOnce ==
    dispatched <= 1

----------------------------------------------------------------------------
(* Further claims about Discovery                                          *)

(* C24: Discovery loads every source file at most once per run, also when  *)
(* the file lies under more than one candidate root.                       *)
C24_LoadedAtMostOnce ==
    \A u \in Units : d_hist.loads[u] <= 1

----------------------------------------------------------------------------
(* Further claims about the Supervisor                                     *)

(* The way start() handles the end of a Transport Loop from the test of    *)
(* the running flag on: the loop exits unless the flag is set and the      *)
(* restart policy grants; a granted restart adds one to restart_count and  *)
(* sleeps min(2 * restart_count, 30) before the loop is entered again.     *)
HandledByPolicy(check, policy, incr, sleep) ==
    /\ pc = check /\ pc' # pc =>
          pc' = IF running THEN policy ELSE "done"
    /\ pc = policy /\ pc' # pc =>
          /\ pc' = IF should_restart THEN incr ELSE "done"
          /\ restart_count' = restart_count
    /\ pc = incr /\ pc' # pc =>
          /\ pc' = sleep
          /\ restart_count' = restart_count + 1
    /\ pc = sleep /\ pc' # pc =>
          /\ pc' = "loop"
          /\ now' = now + Min(2 * restart_count, 30)
          /\ restart_count' = restart_count

(* C25 as stated: every Transport Loop that ends by raising, from its      *)
(* construction or from its run, comes under the policy that handles a     *)
(* return.                                                                 *)
C25_RaiseHandledLikeReturn ==
    [][ /\ pc \in {"construct", "serve"} /\ pc' \notin {pc, "serve", "ret_check"}
           => pc' = "exc_check"
        /\ HandledByPolicy("exc_check", "exc_policy", "exc_incr", "exc_sleep")
        /\ HandledByPolicy("ret_check", "ret_policy", "ret_incr", "ret_sleep")
      ]_vars

(* C25, amended: a Transport Loop that ends by raising an Exception comes  *)
(* under the policy that handles a return; one that ends by raising        *)
(* KeyboardInterrupt clears the running flag and exits the loop without    *)
(* consulting the policy.  In neither case does the exception leave        *)
(* start().                                                                *)
C25_ExceptionHandledLikeReturn ==
    [][ /\ pc \in {"construct", "serve"} /\ pc' \notin {pc, "serve", "ret_check"}
           => \/ pc' = "exc_check"
              \/ pc' = "done" /\ ~running' /\ exit_reason' = "interrupt"
        /\ HandledByPolicy("exc_check", "exc_policy", "exc_incr", "exc_sleep")
        /\ HandledByPolicy("ret_check", "ret_policy", "ret_incr", "ret_sleep")
      ]_vars

(* A Transport Loop has ended by raising for the second time, more than    *)
(* the cooldown after its start, and the restart was granted and counted.  *)
C25_Witness ==
    /\ pc = "exc_sleep"
    /\ running
    /\ restart_count = 2
    /\ now - last_restart_time >= restart_cooldown

(* C26: whenever start() has returned, the running flag is False (so that  *)
(* the loop of the health thread, which tests that flag, ends as well),    *)
(* whatever the branch that left the loop of start().                      *)
C26_StoppedImpliesNotRunning ==
    pc = "done" => ~running

(* C27: each HealthSnapshot is an atomic view of the Supervisor's          *)
(* counters: the restart_count it reports and the last_restart_time it     *)
(* used for the uptime were both current at one instant.  restart_count    *)
(* and last_restart_time change in turn, so this is the case iff           *)
(* restart_count had not changed or last_restart_time had not changed      *)
(* between the two reads, or restart_count had changed once and by the     *)
(* increment that follows the stamp read.                                  *)
C27_SnapshotAtomic ==
    h_view.written =>
        \/ h_view.rc2 = h_view.rc
        \/ h_view.lrt2 = h_view.lrt
        \/ h_view.rc2 = h_view.rc + 1 /\ h_view.ahead

(* C28: the delay slept before the k-th restart, k being restart_count     *)
(* after the increment, 1 <= k <= max_restarts, is exactly min(2k, 30)     *)
(* seconds; the delays do not decrease with k and never exceed 30 s; and   *)
(* last_restart_time is not touched by the sleep: it is stamped afterwards *)
(* with the time then current, so the cooldown of the next run starts      *)
(* after the delay.                                                        *)
C28_BackoffDelay ==
    /\ [][ (pc \in {"ret_sleep", "exc_sleep"} /\ pc' # pc) =>
              /\ restart_count \in 1..max_restarts
              /\ now' - now = Min(2 * restart_count, 30)
              /\ now' - now <= 30
              /\ last_restart_time' = last_restart_time
              /\ restart_count' = restart_count
         ]_vars
    /\ [][ last_restart_time' # last_restart_time =>
              /\ pc = "stamp"
              /\ last_restart_time' = now
              /\ now' = now
         ]_vars
    /\ [](\A k \in 1..(max_restarts - 1) :
             Min(2 * k, 30) <= Min(2 * (k + 1), 30))

(* The sleep before restart max_restarts is over: 20 s were slept after a  *)
(* run of the length of the cooldown, and last_restart_time is still the   *)
(* stamp of that run.                                                      *)
C28_Witness ==
    /\ pc = "stamp"
    /\ restart_count = max_restarts
    /\ now - last_restart_time = restart_cooldown + 20

(* The files the exclusion rule names: the name starts with '__', is the   *)
(* scanner's own entry point, or contains 'flutter' in any letter case, or *)
(* the path contains 'Flutter' or 'ephemeral'.                             *)
Excluded(u) ==
    LET name == UnitFile(u).name
        path == project_root \o UnitFile(u).dir \o name
    IN  \/ name[1] = "__"
        \/ name = <<"jsonrpc_bridge", ".py">>
        \/ \E i \in 1..Len(name) : name[i] \in {"flutter", "Flutter", "FLUTTER"}
        \/ \E i \in 1..Len(path) : path[i] \in {"Flutter", "ephemeral"}

(* C29: Discovery never loads an excluded unit: in no root is such a file  *)
(* loaded, added to the processed set or counted, and nothing it would     *)
(* register reaches the Registry.                                          *)
C29_ExcludedNeverLoaded ==
    /\ [](\A u \in Units : Excluded(u) => d_hist.loads[u] = 0)
    /\ [](\A u \in Units : \A i \in 1..Len(search_paths) :
             (Excluded(u) /\ IsPrefix(search_paths[i], UnitFile(u).dir))
                => module_name(search_paths[i], u) \notin discovered_modules)
    /\ [][ \A u \in Units :
              (Excluded(u) /\ u \in scan_seen' \ scan_seen) =>
                 /\ scan_count' = scan_count
                 /\ discovered_modules' = discovered_modules
                 /\ registry' = registry
                 /\ pc' = pc
         ]_vars

(* The scan of the project root has met every file of the tree, the six    *)
(* excluded ones among them, and has loaded and counted the three others.  *)
C29_Witness ==
    /\ pc = "scan"
    /\ search_idx = 1
    /\ scan_seen = Units
    /\ Cardinality({u \in Units : Excluded(u)}) = 6
    /\ scan_count = 3
    /\ Cardinality(discovered_modules) = 3

(* C30: the health thread is read-only over the Supervisor's state: a step *)
(* of it, in a check that succeeds or in one that fails, leaves            *)
(* restart_count, last_restart_time, the running flag, the processed set   *)
(* and the Registry (and the main thread) as they are; it writes only      *)
(* last_health_check, with the time of the tick, and the health artifact.  *)
C30_HealthReadOnly ==
    [][ (hpc # "h_off" /\ hVars' # hVars) =>
           /\ restart_count' = restart_count
           /\ last_restart_time' = last_restart_time
           /\ running' = running
           /\ discovered_modules' = discovered_modules
           /\ registry' = registry
           /\ pc' = pc
           /\ last_health_check' # last_health_check =>
                 hpc = "h_time" /\ last_health_check' = now
           /\ status_file' # status_file =>
                 hpc = "h_write" /\ status_file'.kind = "status"
      ]_vars

(* A health check made after the first restart has written the artifact    *)
(* and last_health_check; the counter, the stamp, the flag, the processed  *)
(* set and the Registry are those the main thread left.                    *)
C30_Witness ==
    /\ hpc = "h_sleep"
    /\ h_outcome = "ok"
    /\ status_file.kind = "status"
    /\ status_file.restart_count = 1
    /\ status_file.function_count = 3
    /\ last_health_check = 63
    /\ restart_count = 1
    /\ last_restart_time = 63
    /\ running
    /\ Cardinality(discovered_modules) = 4
    /\ Len(registry) = 3

====
